---------------------------- MODULE Spec2Model ----------------------------
(***************************************************************************)
(* Ride dispatch simulator: the dispatch / acceptance / movement engine    *)
(* (backend/src/algorithms), the simulation state (backend/src/state.py)   *)
(* and the request handlers that drive them (backend/main.py).             *)
(*                                                                         *)
(* The world is held in five variables, one per field of SimulationState;  *)
(* a sixth holds the requests the server is in the middle of handling.     *)
(* Python dicts keep insertion order, and the engine's sorts are stable,   *)
(* so drivers, riders and ride requests are sequences of records in        *)
(* insertion order.  Engine functions are operators from a world record to *)
(* a result record holding the new world and the function's return value.  *)
(***************************************************************************)
EXTENDS Integers, Sequences, FiniteSets, TLC

VARIABLES drivers, riders, ride_requests, current_tick, config, requests

vars == <<drivers, riders, ride_requests, current_tick, config, requests>>

(***************************************************************************)
(* Bounds of the model                                                     *)
(***************************************************************************)
\* Tick advance is offered while current_tick < MaxTick.
MaxTick == 2

\* The ids the model's requests use.  Ride ids are generated by the program
\* (uuid4); the model hands them out in order from RideIds and requests no
\* ride once they are used up.
DriverIds == {"d1", "d2"}
RiderIds == {"u1"}
RideIds == {"r1", "r2"}
\* Points at which the model creates drivers and riders and between which
\* it requests rides; all are valid coordinates of the 100 x 100 grid.
DriverPoints == {<<0, 0>>}
RiderPoints == {<<0, 0>>}
PickupPoints == {<<0, 0>>}
DropoffPoints == {<<0, 1>>}

\* The ranking of drivers is examined on worlds with two drivers on the row
\* y = 0 and one ride waiting at (0, 0): each driver at an x of RankXs, with
\* 0..MaxCompleted completed rides and a search radius of RankRadii, under
\* a fairness_penalty num/den of RankWeights.
MaxCompleted == 2
RankXs == {0, 5, 12}
RankRadii == {5, 15}
RankWeights == {<<0, 1>>, <<1, 2>>, <<1, 1>>, <<2, 1>>}

\* Radius growth is examined under the configurations PUT /config sets from
\* IdleMaxRadii and IdleIntervals, over 0..IdleMaxK growth intervals.
IdleMaxK == 3
IdleMaxRadii == {3, 6, 7}
IdleIntervals == {1, 2, 3}

\* Rejection and fallback are examined on worlds with three drivers drawn
\* like the ranked ones, each with a number of completed rides of
\* RejectCompleted.
RejectCompleted == {0, 1}

\* Cooldown is examined with two drivers created at points of
\* CooldownDriverPoints, one of them just out of reach of the pickup, under
\* a rejection_cooldown_ticks of CooldownTicks.
CooldownDriverPoints == {<<0, 0>>, <<6, 0>>}
CooldownTicks == {1, 5}

\* Long idling is examined with one driver over MaxGrowTick ticks.
MaxGrowTick == 32

\* A fleet of three drivers is examined with rides to the dropoff points of
\* FleetDropoffPoints, one and two units from the pickup.
FleetDropoffPoints == {<<0, 1>>, <<0, 2>>}

\* Trips are examined over MaxTripTick ticks with two drivers created at
\* (0, 0) and rides from a point of TripPickupPoints to one of
\* TripDropoffPoints: the pickup lies at equal distance on both axes from
\* where the drivers start, and the dropoffs on the pickup or at equal
\* distance on both axes from it, so that the random tie-break of the
\* movement decides the path.
MaxTripTick == 3
TripPickupPoints == {<<1, 1>>}
TripDropoffPoints == {<<1, 1>>, <<2, 2>>}

\* SimulationState.update_config is examined on dicts of one or two items
\* with keys of UpdateKeys and values of UpdateValues.
UpdateKeys == {"initial_search_radius", "max_search_radius",
               "radius_growth_interval", "rejection_cooldown_ticks",
               "fairness_penalty", "grid_size", "global_search_after_ticks",
               "search_radius"}
UpdateValues == {7}

\* Overlapping requests are examined with at most MaxInFlight requests in
\* the middle of being handled, over MaxConcurrentTick ticks.
MaxInFlight == 2
MaxConcurrentTick == 1

\* The engine's operations called directly are examined over MaxEngineTick
\* ticks.
MaxEngineTick == 1

\* The geometry is examined over MaxGeoTick ticks on worlds with one driver
\* and one ride, the driver and the pickup each at a point of GeoPoints,
\* under a grid_size of GridSizes, and on coordinates up to GeoMax + 1 off
\* the driver's.
GeoMax == 2
MaxGeoTick == 2
GeoPoints == (0..GeoMax) \X (0..GeoMax)
GridSizes == 1..(GeoMax + 1)
GeoOffsets == (-(GeoMax + 1))..(GeoMax + 1)

\* Failing ticks are examined under the values of ZeroIntervals that
\* PUT /config sets radius_growth_interval to.
ZeroIntervals == {0, 1}

(***************************************************************************)
(* Enumerations (models/enums.py) and Python's None                        *)
(***************************************************************************)
None == "None"

AVAILABLE == "available"
ASSIGNED == "assigned"
ON_TRIP == "on_trip"
OFFLINE == "offline"
DriverStatus == {AVAILABLE, ASSIGNED, ON_TRIP, OFFLINE}

WAITING == "waiting"
PICKUP == "pickup"
COMPLETED == "completed"
FAILED == "failed"
RideStatus == {WAITING, ASSIGNED, PICKUP, ON_TRIP, COMPLETED, FAILED}

PICKED_UP == "picked_up"
RiderStatus == {WAITING, PICKED_UP, COMPLETED}

(***************************************************************************)
(* Program constants                                                       *)
(***************************************************************************)
DefaultSearchRadius == 5
DefaultInitialSearchRadius == 15
DefaultMaxSearchRadius == 100
DefaultRadiusGrowthInterval == 2
DefaultGridSize == 100
DefaultRejectionCooldownTicks == 5
DefaultGlobalSearchAfterTicks == 10
FairnessMultiplier == 10
MaxCoordinate == 99
SearchRadiusGe == 1
SearchRadiusLe == 20

\* fairness_penalty is a float in the program.  It is kept as an exact
\* fraction num/den (den > 0); the values used are exact in binary floating
\* point, so the program's float arithmetic on them is exact too.
Frac(n, d) == [num |-> n, den |-> d]

SimulationConfig ==
    [initial_search_radius |-> DefaultInitialSearchRadius,
     max_search_radius |-> DefaultMaxSearchRadius,
     radius_growth_interval |-> DefaultRadiusGrowthInterval,
     grid_size |-> DefaultGridSize,
     rejection_cooldown_ticks |-> DefaultRejectionCooldownTicks,
     fairness_penalty |-> Frac(1, 1),
     global_search_after_ticks |-> DefaultGlobalSearchAfterTicks]

(***************************************************************************)
(* Entity constructors with the models' field defaults                     *)
(***************************************************************************)
Driver(id, x, y) ==
    [id |-> id, x |-> x, y |-> y, status |-> AVAILABLE,
     search_radius |-> DefaultSearchRadius, completed_rides |-> 0,
     idle_ticks |-> 0, current_ride_id |-> None]

Rider(id, x, y) == [id |-> id, x |-> x, y |-> y, status |-> WAITING]

\* cooldown_until_tick is Optional[int]: the empty set is None, {c} is c.
RideRequest(id, rider_id, px, py, dx, dy) ==
    [id |-> id, rider_id |-> rider_id,
     pickup_x |-> px, pickup_y |-> py, dropoff_x |-> dx, dropoff_y |-> dy,
     status |-> WAITING, assigned_driver_id |-> None,
     rejected_driver_ids |-> <<>>, created_tick |-> 0,
     cooldown_until_tick |-> {}]

(***************************************************************************)
(* The world record and dict helpers                                       *)
(***************************************************************************)
World ==
    [drivers |-> drivers, riders |-> riders, ride_requests |-> ride_requests,
     current_tick |-> current_tick, config |-> config]

SetState(w) ==
    /\ drivers' = w.drivers
    /\ riders' = w.riders
    /\ ride_requests' = w.ride_requests
    /\ current_tick' = w.current_tick
    /\ config' = w.config

\* A request handled from start to end with no other request in between.
SetWorld(w) ==
    /\ SetState(w)
    /\ requests' = requests

SimulationState ==
    [drivers |-> <<>>, riders |-> <<>>, ride_requests |-> <<>>,
     current_tick |-> 0, config |-> SimulationConfig]

Range(s) == {s[i] : i \in 1..Len(s)}
Ids(s) == {s[i].id : i \in 1..Len(s)}
Has(s, id) == \E i \in 1..Len(s) : s[i].id = id
IndexOf(s, id) == CHOOSE i \in 1..Len(s) : s[i].id = id
Get(s, id) == s[IndexOf(s, id)]
Put(s, rec) == [s EXCEPT ![IndexOf(s, rec.id)] = rec]
Del(s, id) == SelectSeq(s, LAMBDA e : e.id # id)

get_driver(w, id) == Get(w.drivers, id)
get_rider(w, id) == Get(w.riders, id)
get_ride_request(w, id) == Get(w.ride_requests, id)
put_driver(w, d) == [w EXCEPT !.drivers = Put(w.drivers, d)]
put_rider(w, r) == [w EXCEPT !.riders = Put(w.riders, r)]
put_ride(w, r) == [w EXCEPT !.ride_requests = Put(w.ride_requests, r)]

get_available_drivers(w) == SelectSeq(w.drivers, LAMBDA d : d.status = AVAILABLE)

(***************************************************************************)
(* Geometry (utils/geometry.py)                                            *)
(***************************************************************************)
Abs(n) == IF n < 0 THEN -n ELSE n
Min(a, b) == IF a < b THEN a ELSE b
Max(a, b) == IF a > b THEN a ELSE b

\* Mutant of manhattan_distance: the signed difference on the y axis.
manhattan_distance_signed(x1, y1, x2, y2) == Abs(x1 - x2) + (y1 - y2)

manhattan_distance(x1, y1, x2, y2) == Abs(x1 - x2) + Abs(y1 - y2)

is_within_radius(cx, cy, tx, ty, radius) ==
    manhattan_distance(cx, cy, tx, ty) <= radius

\* Mutant of clamp_to_grid: the upper edge is grid_size.
clamp_to_grid_inclusive(x, y, grid_size) ==
    <<Max(0, Min(x, grid_size)), Max(0, Min(y, grid_size))>>

clamp_to_grid(x, y, grid_size) ==
    <<Max(0, Min(x, grid_size - 1)), Max(0, Min(y, grid_size - 1))>>

(***************************************************************************)
(* RideRequest and Driver methods                                          *)
(***************************************************************************)
\* Mutant of is_in_cooldown: the cooldown lasts through its boundary tick.
is_in_cooldown_inclusive(ride, tick) ==
    \E c \in ride.cooldown_until_tick : tick <= c

\* Mutant of is_in_cooldown: no ride is ever in cooldown.
is_in_cooldown_never(ride, tick) == FALSE

is_in_cooldown(ride, tick) == \E c \in ride.cooldown_until_tick : tick < c

InSeq(x, s) == \E i \in 1..Len(s) : s[i] = x

\* Mutant of add_rejection: the driver id is appended whether or not it is
\* in the list.
add_rejection_with_duplicates(ride, driver_id, tick, cooldown_ticks) ==
    [ride EXCEPT
       !.rejected_driver_ids = Append(@, driver_id),
       !.cooldown_until_tick = {tick + cooldown_ticks}]

add_rejection(ride, driver_id, tick, cooldown_ticks) ==
    [ride EXCEPT
       !.rejected_driver_ids =
           IF InSeq(driver_id, @) THEN @ ELSE Append(@, driver_id),
       !.cooldown_until_tick = {tick + cooldown_ticks}]

assign_driver(ride, driver_id) ==
    [ride EXCEPT !.assigned_driver_id = driver_id, !.status = ASSIGNED]

start_trip(ride) ==
    IF ride.status \in {ASSIGNED, PICKUP} THEN [ride EXCEPT !.status = ON_TRIP]
    ELSE ride

complete(ride) == [ride EXCEPT !.status = COMPLETED]

fail(ride) == [ride EXCEPT !.status = FAILED]

\* Mutant of reset_idle_state: the completed rides are reset too.
reset_idle_state_and_rides(driver) ==
    [driver EXCEPT !.idle_ticks = 0, !.search_radius = DefaultSearchRadius,
                   !.completed_rides = 0]

reset_idle_state(driver) ==
    [driver EXCEPT !.idle_ticks = 0, !.search_radius = DefaultSearchRadius]


(***************************************************************************)
(* list.sort(key=...): a stable sort of records [key |-> tuple, val |-> _] *)
(* by their key tuples, compared as Python compares tuples.                *)
(***************************************************************************)
LexLess(a, b) ==
    \E i \in 1..Len(a) : a[i] < b[i] /\ \A j \in 1..(i - 1) : a[j] = b[j]

\* e goes after every element whose key is not greater than its own.
InsertSorted(sorted, e) ==
    LET n == Cardinality({i \in 1..Len(sorted) : ~LexLess(e.key, sorted[i].key)})
    IN  SubSeq(sorted, 1, n) \o <<e>> \o SubSeq(sorted, n + 1, Len(sorted))

RECURSIVE StableSort(_)
StableSort(s) ==
    IF Len(s) <= 1 THEN s
    ELSE InsertSorted(StableSort(SubSeq(s, 1, Len(s) - 1)), s[Len(s)])

Vals(s) == [i \in 1..Len(s) |-> s[i].val]

(***************************************************************************)
(* Dispatch (algorithms/dispatch.py)                                       *)
(***************************************************************************)
\* Mutant of find_eligible_drivers: the rejected-set check is left out.
find_eligible_drivers_ignoring_rejections(ride, ds) ==
    SelectSeq(ds, LAMBDA d :
        /\ d.status = AVAILABLE
        /\ is_within_radius(d.x, d.y, ride.pickup_x, ride.pickup_y,
                            d.search_radius))

find_eligible_drivers(ride, ds) ==
    SelectSeq(ds, LAMBDA d :
        /\ d.status = AVAILABLE
        /\ ~InSeq(d.id, ride.rejected_driver_ids)
        /\ is_within_radius(d.x, d.y, ride.pickup_x, ride.pickup_y,
                            d.search_radius))

\* Mutant of composite_num: the distance term is left out.
composite_num_fairness_only(d, ride, fairness_weight) ==
    fairness_weight.num * d.completed_rides * FairnessMultiplier

\* composite_score = fairness_weight * completed_rides * 10 + distance.
\* With fairness_weight = num/den this is composite_num / den; den is the
\* same positive number for every driver, so the numerators are compared.
composite_num(d, ride, fairness_weight) ==
    fairness_weight.num * d.completed_rides * FairnessMultiplier
      + fairness_weight.den
          * manhattan_distance(d.x, d.y, ride.pickup_x, ride.pickup_y)

driver_score(d, ride, fairness_weight) ==
    [key |-> <<composite_num(d, ride, fairness_weight),
               d.completed_rides,
               manhattan_distance(d.x, d.y, ride.pickup_x, ride.pickup_y)>>,
     val |-> d]

\* Mutant of prioritize_drivers: the list is returned as it came.
prioritize_drivers_unsorted(eligible_drivers, ride, fairness_weight) ==
    eligible_drivers

prioritize_drivers(eligible_drivers, ride, fairness_weight) ==
    Vals(StableSort([i \in 1..Len(eligible_drivers) |->
                       driver_score(eligible_drivers[i], ride, fairness_weight)]))

DispatchFailed(w) == [w |-> w, success |-> FALSE, driver_id |-> None]

\* Mutant of dispatch_ride: a ride for which no driver is eligible is marked
\* FAILED.
dispatch_ride_failing(w, ride_id) ==
    IF ~Has(w.ride_requests, ride_id) THEN DispatchFailed(w)
    ELSE LET ride == get_ride_request(w, ride_id)
             eligible_drivers == find_eligible_drivers(ride, get_available_drivers(w))
         IN  IF ride.status # WAITING THEN DispatchFailed(w)
             ELSE IF is_in_cooldown(ride, w.current_tick) THEN DispatchFailed(w)
             ELSE IF Len(eligible_drivers) = 0
             THEN DispatchFailed(put_ride(w, fail(ride)))
             ELSE LET best_driver ==
                          prioritize_drivers(eligible_drivers, ride,
                                             w.config.fairness_penalty)[1]
                      assigned ==
                          reset_idle_state([best_driver EXCEPT
                                              !.status = ASSIGNED,
                                              !.current_ride_id = ride.id])
                  IN  [w |-> put_driver(put_ride(w, assign_driver(ride, best_driver.id)),
                                        assigned),
                       success |-> TRUE,
                       driver_id |-> best_driver.id]

dispatch_ride(w, ride_id) ==
    IF ~Has(w.ride_requests, ride_id) THEN DispatchFailed(w)
    ELSE LET ride == get_ride_request(w, ride_id)
             eligible_drivers == find_eligible_drivers(ride, get_available_drivers(w))
         IN  IF ride.status # WAITING THEN DispatchFailed(w)
             ELSE IF is_in_cooldown(ride, w.current_tick) THEN DispatchFailed(w)
             ELSE IF Len(get_available_drivers(w)) = 0 THEN DispatchFailed(w)
             ELSE IF Len(eligible_drivers) = 0 THEN DispatchFailed(w)
             ELSE LET best_driver ==
                          prioritize_drivers(eligible_drivers, ride,
                                             w.config.fairness_penalty)[1]
                      assigned ==
                          reset_idle_state([best_driver EXCEPT
                                              !.status = ASSIGNED,
                                              !.current_ride_id = ride.id])
                  IN  [w |-> put_driver(put_ride(w, assign_driver(ride, best_driver.id)),
                                        assigned),
                       success |-> TRUE,
                       driver_id |-> best_driver.id]

\* Mutant of record_rejection: the cooldown is not suspended.
record_rejection_keeping_cooldown(w, ride_id, rejected_driver_id) ==
    LET rejected == add_rejection(get_ride_request(w, ride_id), rejected_driver_id,
                                  w.current_tick, w.config.rejection_cooldown_ticks)
    IN  put_ride(w, [rejected EXCEPT !.status = WAITING,
                                     !.assigned_driver_id = None])

\* attempt_fallback_dispatch up to its call of dispatch_ride: the rejection
\* recorded, the ride back to WAITING, its cooldown suspended.
record_rejection(w, ride_id, rejected_driver_id) ==
    LET rejected == add_rejection(get_ride_request(w, ride_id), rejected_driver_id,
                                  w.current_tick, w.config.rejection_cooldown_ticks)
    IN  put_ride(w, [rejected EXCEPT !.status = WAITING,
                                     !.assigned_driver_id = None,
                                     !.cooldown_until_tick = {}])

\* Mutant of attempt_fallback_dispatch: the cooldown is not restored after a
\* failed dispatch.
attempt_fallback_dispatch_without_restore(w, ride_id, rejected_driver_id) ==
    IF ~Has(w.ride_requests, ride_id) THEN DispatchFailed(w)
    ELSE LET res == dispatch_ride(record_rejection(w, ride_id, rejected_driver_id),
                                  ride_id)
         IN  IF res.success THEN res
             ELSE LET ride == get_ride_request(res.w, ride_id)
                      available_drivers == get_available_drivers(res.w)
                      all_rejected ==
                          \A i \in 1..Len(available_drivers) :
                              InSeq(available_drivers[i].id,
                                    ride.rejected_driver_ids)
                  IN  [w |-> put_ride(res.w, IF all_rejected THEN fail(ride)
                                             ELSE ride),
                       success |-> FALSE,
                       driver_id |-> None]

attempt_fallback_dispatch(w, ride_id, rejected_driver_id) ==
    IF ~Has(w.ride_requests, ride_id) THEN DispatchFailed(w)
    ELSE LET original_cooldown ==
                 {w.current_tick + w.config.rejection_cooldown_ticks}
             res == dispatch_ride(record_rejection(w, ride_id, rejected_driver_id),
                                  ride_id)
         IN  IF res.success THEN res
             ELSE LET restored == [get_ride_request(res.w, ride_id) EXCEPT
                                     !.cooldown_until_tick = original_cooldown]
                      available_drivers == get_available_drivers(res.w)
                      all_rejected ==
                          \A i \in 1..Len(available_drivers) :
                              InSeq(available_drivers[i].id,
                                    restored.rejected_driver_ids)
                  IN  [w |-> put_ride(res.w, IF all_rejected THEN fail(restored)
                                             ELSE restored),
                       success |-> FALSE,
                       driver_id |-> None]

get_waiting_rides(w) ==
    SelectSeq(w.ride_requests, LAMBDA r :
        r.status = WAITING /\ ~is_in_cooldown(r, w.current_tick))

\* Mutant of batch_order: the waiting rides sorted newest first.
batch_order_newest_first(w) ==
    LET waiting_rides == get_waiting_rides(w)
    IN  Vals(StableSort([i \in 1..Len(waiting_rides) |->
                           [key |-> <<0 - waiting_rides[i].created_tick>>,
                            val |-> waiting_rides[i].id]]))

\* The rides batch_dispatch attempts, in the order it attempts them.
batch_order(w) ==
    LET waiting_rides == get_waiting_rides(w)
    IN  Vals(StableSort([i \in 1..Len(waiting_rides) |->
                           [key |-> <<waiting_rides[i].created_tick>>,
                            val |-> waiting_rides[i].id]]))

\* dispatched: the pairs <<ride_id, driver_id>> in the order the dict got them.
RECURSIVE batch_loop(_, _, _)
batch_loop(w, ids, dispatched) ==
    IF Len(ids) = 0 THEN [w |-> w, dispatched |-> dispatched]
    ELSE LET res == dispatch_ride(w, Head(ids))
         IN  batch_loop(res.w, Tail(ids),
                        IF res.success
                        THEN Append(dispatched, <<Head(ids), res.driver_id>>)
                        ELSE dispatched)

batch_dispatch(w) == batch_loop(w, batch_order(w), <<>>)

(***************************************************************************)
(* Acceptance (algorithms/acceptance.py)                                   *)
(***************************************************************************)
\* Mutant of should_accept_ride: the driver's status is not looked at.
should_accept_ride_whatever_status(driver, ride) ==
    is_within_radius(driver.x, driver.y, ride.pickup_x, ride.pickup_y,
                     driver.search_radius)

should_accept_ride(driver, ride) ==
    IF driver.status # AVAILABLE THEN FALSE
    ELSE is_within_radius(driver.x, driver.y, ride.pickup_x, ride.pickup_y,
                          driver.search_radius)

\* Mutant of release_driver: the driver keeps its current_ride_id.
release_driver_keeping_ride(w, driver_id, ride_id) ==
    LET freed == [get_driver(w, driver_id) EXCEPT !.status = AVAILABLE]
        waiting == [add_rejection(get_ride_request(w, ride_id), driver_id,
                                  w.current_tick, w.config.rejection_cooldown_ticks)
                      EXCEPT !.status = WAITING, !.assigned_driver_id = None]
    IN  put_ride(put_driver(w, freed), waiting)

\* The reject branch up to its call of attempt_fallback_dispatch: the driver
\* released, the rejection recorded, the ride back to WAITING.
release_driver(w, driver_id, ride_id) ==
    LET freed == [get_driver(w, driver_id) EXCEPT !.status = AVAILABLE,
                                                  !.current_ride_id = None]
        waiting == [add_rejection(get_ride_request(w, ride_id), driver_id,
                                  w.current_tick, w.config.rejection_cooldown_ticks)
                      EXCEPT !.status = WAITING, !.assigned_driver_id = None]
    IN  put_ride(put_driver(w, freed), waiting)

\* Mutant of process_driver_response: the check that the ride is assigned
\* to the responding driver is left out.
process_driver_response_unguarded(w, driver_id, ride_id, accepted) ==
    IF ~Has(w.drivers, driver_id) THEN [w |-> w, ret |-> FALSE]
    ELSE IF ~Has(w.ride_requests, ride_id) THEN [w |-> w, ret |-> FALSE]
    ELSE IF accepted
    THEN [w |-> put_driver(w, reset_idle_state(
                             [get_driver(w, driver_id) EXCEPT
                                !.status = ASSIGNED,
                                !.current_ride_id = ride_id])),
          ret |-> TRUE]
    ELSE [w |-> attempt_fallback_dispatch(release_driver(w, driver_id, ride_id),
                                          ride_id, driver_id).w,
          ret |-> TRUE]

process_driver_response(w, driver_id, ride_id, accepted) ==
    IF ~Has(w.drivers, driver_id) THEN [w |-> w, ret |-> FALSE]
    ELSE IF ~Has(w.ride_requests, ride_id) THEN [w |-> w, ret |-> FALSE]
    ELSE IF get_ride_request(w, ride_id).assigned_driver_id # driver_id
    THEN [w |-> w, ret |-> FALSE]
    ELSE IF accepted
    THEN [w |-> put_driver(w, reset_idle_state(
                             [get_driver(w, driver_id) EXCEPT
                                !.status = ASSIGNED,
                                !.current_ride_id = ride_id])),
          ret |-> TRUE]
    ELSE [w |-> attempt_fallback_dispatch(release_driver(w, driver_id, ride_id),
                                          ride_id, driver_id).w,
          ret |-> TRUE]

auto_process_acceptance(w, driver_id, ride_id) ==
    IF ~Has(w.drivers, driver_id) \/ ~Has(w.ride_requests, ride_id)
    THEN [w |-> w, accepted |-> FALSE]
    ELSE LET accepted == should_accept_ride(get_driver(w, driver_id),
                                            get_ride_request(w, ride_id))
         IN  [w |-> process_driver_response(w, driver_id, ride_id, accepted).w,
              accepted |-> accepted]


(***************************************************************************)
(* Movement (algorithms/movement.py).  random.choice(list(Direction)) and  *)
(* random.random() < 0.5 are inputs: a direction and a coin per driver.    *)
(***************************************************************************)
Direction == {<<0, 1>>, <<0, -1>>, <<-1, 0>>, <<1, 0>>}

\* Mutant of move_driver_randomly: the step is not clamped to the grid.
move_driver_randomly_unclamped(driver, grid_size, direction) ==
    IF driver.status # AVAILABLE THEN driver
    ELSE [driver EXCEPT !.x = @ + direction[1], !.y = @ + direction[2]]

move_driver_randomly(driver, grid_size, direction) ==
    IF driver.status # AVAILABLE THEN driver
    ELSE LET new == clamp_to_grid(driver.x + direction[1],
                                  driver.y + direction[2], grid_size)
         IN  [driver EXCEPT !.x = new[1], !.y = new[2]]

Sign(n) == IF n > 0 THEN 1 ELSE -1

\* Mutant of move_driver_toward_target: at equal distance on both axes the
\* driver moves on both.
move_driver_toward_target_diagonally(driver, target_x, target_y, grid_size, coin) ==
    IF driver.x = target_x /\ driver.y = target_y THEN driver
    ELSE LET dx == target_x - driver.x
             dy == target_y - driver.y
             new == IF Abs(dx) > Abs(dy)
                    THEN clamp_to_grid(driver.x + Sign(dx), driver.y, grid_size)
                    ELSE IF Abs(dy) > Abs(dx)
                    THEN clamp_to_grid(driver.x, driver.y + Sign(dy), grid_size)
                    ELSE clamp_to_grid(driver.x + Sign(dx), driver.y + Sign(dy),
                                       grid_size)
         IN  [driver EXCEPT !.x = new[1], !.y = new[2]]

move_driver_toward_target(driver, target_x, target_y, grid_size, coin) ==
    IF driver.x = target_x /\ driver.y = target_y THEN driver
    ELSE LET dx == target_x - driver.x
             dy == target_y - driver.y
             horizontally ==
                 \/ Abs(dx) > Abs(dy)
                 \/ Abs(dx) = Abs(dy) /\ coin
             new == IF horizontally
                    THEN clamp_to_grid(driver.x + Sign(dx), driver.y, grid_size)
                    ELSE clamp_to_grid(driver.x, driver.y + Sign(dy), grid_size)
         IN  [driver EXCEPT !.x = new[1], !.y = new[2]]

\* n % m == 0 in Python, for m # 0 of either sign.
Divides(m, n) == n % Abs(m) = 0

\* Mutant of update_driver_search_radius: growth without the cap.
update_driver_search_radius_uncapped(driver, cfg) ==
    IF driver.status # AVAILABLE THEN [driver |-> driver, raised |-> FALSE]
    ELSE LET ticked == [driver EXCEPT !.idle_ticks = @ + 1]
         IN  IF ticked.idle_ticks > 0 /\ cfg.radius_growth_interval = 0
             THEN [driver |-> ticked, raised |-> TRUE]
             ELSE IF /\ ticked.idle_ticks > 0
                     /\ Divides(cfg.radius_growth_interval, ticked.idle_ticks)
             THEN [driver |-> [ticked EXCEPT !.search_radius = @ + 1],
                   raised |-> FALSE]
             ELSE [driver |-> ticked, raised |-> FALSE]

\* [driver, raised]: idle_ticks % 0 raises ZeroDivisionError after idle_ticks
\* has been incremented.
update_driver_search_radius(driver, cfg) ==
    IF driver.status # AVAILABLE THEN [driver |-> driver, raised |-> FALSE]
    ELSE LET ticked == [driver EXCEPT !.idle_ticks = @ + 1]
         IN  IF ticked.idle_ticks > 0 /\ cfg.radius_growth_interval = 0
             THEN [driver |-> ticked, raised |-> TRUE]
             ELSE IF /\ ticked.idle_ticks > 0
                     /\ Divides(cfg.radius_growth_interval, ticked.idle_ticks)
             THEN [driver |-> [ticked EXCEPT !.search_radius =
                                   Min(cfg.max_search_radius, @ + 1)],
                   raised |-> FALSE]
             ELSE [driver |-> ticked, raised |-> FALSE]

\* Mutant of complete_ride: the rider is left as it is.
complete_ride_without_rider(w, driver, ride) ==
    put_driver(put_ride(w, complete(ride)),
               [driver EXCEPT !.status = AVAILABLE,
                              !.current_ride_id = None,
                              !.completed_rides = @ + 1,
                              !.idle_ticks = 0])

\* Mutant of complete_ride: the driver keeps its current_ride_id.
complete_ride_keeping_ride(w, driver, ride) ==
    LET w1 == put_ride(w, complete(ride))
        w2 == put_driver(w1, [driver EXCEPT !.status = AVAILABLE,
                                            !.completed_rides = @ + 1,
                                            !.idle_ticks = 0])
    IN  IF Has(w2.riders, ride.rider_id)
        THEN put_rider(w2, [get_rider(w2, ride.rider_id) EXCEPT !.status = COMPLETED])
        ELSE w2

complete_ride(w, driver, ride) ==
    LET w1 == put_ride(w, complete(ride))
        w2 == put_driver(w1, [driver EXCEPT !.status = AVAILABLE,
                                            !.current_ride_id = None,
                                            !.completed_rides = @ + 1,
                                            !.idle_ticks = 0])
    IN  IF Has(w2.riders, ride.rider_id)
        THEN put_rider(w2, [get_rider(w2, ride.rider_id) EXCEPT !.status = COMPLETED])
        ELSE w2

\* The ASSIGNED branch: one step toward the pickup, and the pickup
\* transition when the driver stands on it.
move_to_pickup(w, driver, ride, coin) ==
    LET moved == move_driver_toward_target(driver, ride.pickup_x, ride.pickup_y,
                                           w.config.grid_size, coin)
    IN  IF moved.x = ride.pickup_x /\ moved.y = ride.pickup_y
        THEN LET w1 == put_ride(put_driver(w, [moved EXCEPT !.status = ON_TRIP]),
                                start_trip(ride))
             IN  IF Has(w1.riders, ride.rider_id)
                 THEN put_rider(w1, [get_rider(w1, ride.rider_id) EXCEPT
                                       !.x = moved.x, !.y = moved.y,
                                       !.status = PICKED_UP])
                 ELSE w1
        ELSE put_driver(w, moved)

\* The ON_TRIP branch: one step toward the dropoff, the rider carried along,
\* and completion when the driver stands on the dropoff.
move_to_dropoff(w, driver, ride, coin) ==
    LET moved == move_driver_toward_target(driver, ride.dropoff_x, ride.dropoff_y,
                                           w.config.grid_size, coin)
        w1 == put_driver(w, moved)
        w2 == IF Has(w1.riders, ride.rider_id)
              THEN put_rider(w1, [get_rider(w1, ride.rider_id) EXCEPT
                                    !.x = moved.x, !.y = moved.y])
              ELSE w1
    IN  IF moved.x = ride.dropoff_x /\ moved.y = ride.dropoff_y
        THEN complete_ride(w2, moved, ride)
        ELSE w2

\* [w, raised]
process_driver_movement(w, driver, direction, coin) ==
    IF driver.status = AVAILABLE
    THEN LET res == update_driver_search_radius(
                        move_driver_randomly(driver, w.config.grid_size, direction),
                        w.config)
         IN  [w |-> put_driver(w, res.driver), raised |-> res.raised]
    ELSE IF /\ driver.status \in {ASSIGNED, ON_TRIP}
            /\ driver.current_ride_id # None
            /\ Has(w.ride_requests, driver.current_ride_id)
    THEN LET ride == get_ride_request(w, driver.current_ride_id)
         IN  [w |-> IF driver.status = ASSIGNED
                    THEN move_to_pickup(w, driver, ride, coin)
                    ELSE move_to_dropoff(w, driver, ride, coin),
              raised |-> FALSE]
    ELSE [w |-> w, raised |-> FALSE]

\* for driver in state.drivers.values(): the i-th driver onwards; an
\* exception ends the loop and leaves what was done so far.
RECURSIVE movement_loop(_, _, _, _)
movement_loop(w, i, directions, coins) ==
    IF i > Len(w.drivers) THEN [w |-> w, raised |-> FALSE]
    ELSE LET res == process_driver_movement(w, w.drivers[i], directions[i], coins[i])
         IN  IF res.raised THEN res
             ELSE movement_loop(res.w, i + 1, directions, coins)

process_all_driver_movements(w, directions, coins) ==
    movement_loop(w, 1, directions, coins)


(***************************************************************************)
(* SimulationState methods (state.py)                                      *)
(***************************************************************************)
increment_tick(w) == [w EXCEPT !.current_tick = @ + 1]

add_ride_request(w, ride) ==
    [w EXCEPT !.ride_requests =
        Append(@, [ride EXCEPT !.created_tick = w.current_tick])]

\* config_updates: the dict's items in order, as pairs <<key, value>>.  An
\* unknown key raises ValueError; the keys before it have been set.
RECURSIVE update_config(_, _)
update_config(w, config_updates) ==
    IF Len(config_updates) = 0 THEN [w |-> w, raised |-> FALSE]
    ELSE LET key == Head(config_updates)[1]
             value == Head(config_updates)[2]
         IN  IF key \in DOMAIN w.config
             THEN update_config([w EXCEPT !.config[key] = value],
                                Tail(config_updates))
             ELSE [w |-> w, raised |-> TRUE]

(***************************************************************************)
(* Request handlers (main.py).  Each returns the new world and the HTTP    *)
(* status of its response.                                                 *)
(***************************************************************************)
ValidCoordinate(v) == 0 <= v /\ v <= MaxCoordinate

create_driver(w, id, x, y) ==
    IF ~(ValidCoordinate(x) /\ ValidCoordinate(y)) \/ Has(w.drivers, id)
    THEN [w |-> w, status_code |-> 400]
    ELSE [w |-> [w EXCEPT !.drivers = Append(@, Driver(id, x, y))],
          status_code |-> 200]

create_rider(w, id, x, y) ==
    IF ~(ValidCoordinate(x) /\ ValidCoordinate(y)) \/ Has(w.riders, id)
    THEN [w |-> w, status_code |-> 400]
    ELSE [w |-> [w EXCEPT !.riders = Append(@, Rider(id, x, y))],
          status_code |-> 200]

\* ride_id stands for f"ride_{uuid.uuid4().hex[:8]}".
request_ride(w, ride_id, rider_id, px, py, dx, dy) ==
    IF ~Has(w.riders, rider_id)
    THEN [w |-> w, status_code |-> 404, dispatched |-> FALSE,
          assigned_driver_id |-> None]
    ELSE IF \/ ~(ValidCoordinate(px) /\ ValidCoordinate(py))
            \/ ~(ValidCoordinate(dx) /\ ValidCoordinate(dy))
            \/ Has(w.ride_requests, ride_id)
    THEN [w |-> w, status_code |-> 400, dispatched |-> FALSE,
          assigned_driver_id |-> None]
    ELSE LET w1 == add_ride_request(w, RideRequest(ride_id, rider_id, px, py, dx, dy))
             res == dispatch_ride(w1, ride_id)
         IN  [w |-> IF res.success
                    THEN auto_process_acceptance(res.w, res.driver_id, ride_id).w
                    ELSE res.w,
              status_code |-> 200,
              dispatched |-> res.success,
              assigned_driver_id |-> res.driver_id]

\* for ride_id, driver_id in dispatched.items(): auto_process_acceptance(...)
RECURSIVE acceptance_loop(_, _)
acceptance_loop(w, dispatched) ==
    IF Len(dispatched) = 0 THEN w
    ELSE acceptance_loop(
             auto_process_acceptance(w, Head(dispatched)[2], Head(dispatched)[1]).w,
             Tail(dispatched))

\* Mutant of advance_tick: batch dispatch and acceptance run before the
\* movement.
advance_tick_dispatch_first(w, directions, coins) ==
    LET batch == batch_dispatch(increment_tick(w))
        accepted == acceptance_loop(batch.w, batch.dispatched)
        moved == process_all_driver_movements(accepted, directions, coins)
    IN  [w |-> moved.w,
         status_code |-> IF moved.raised THEN 500 ELSE 200,
         rides_dispatched |-> Len(batch.dispatched)]

\* An exception in the movement phase ends the request with the tick
\* counted and the movement done so far.
advance_tick(w, directions, coins) ==
    LET moved == process_all_driver_movements(increment_tick(w), directions, coins)
        batch == batch_dispatch(moved.w)
    IN  IF moved.raised
        THEN [w |-> moved.w, status_code |-> 500, rides_dispatched |-> 0]
        ELSE [w |-> acceptance_loop(batch.w, batch.dispatched),
              status_code |-> 200,
              rides_dispatched |-> Len(batch.dispatched)]

put_config(w, config_updates) ==
    LET res == update_config(w, config_updates)
    IN  [w |-> res.w, status_code |-> IF res.raised THEN 400 ELSE 200]

\* Mutant of remove_driver: the driver's status is not looked at.
remove_driver_whatever_status(w, driver_id) ==
    IF ~Has(w.drivers, driver_id) THEN [w |-> w, status_code |-> 404]
    ELSE [w |-> [w EXCEPT !.drivers = Del(@, driver_id)], status_code |-> 200]

remove_driver(w, driver_id) ==
    IF ~Has(w.drivers, driver_id) THEN [w |-> w, status_code |-> 404]
    ELSE IF get_driver(w, driver_id).status # AVAILABLE
    THEN [w |-> w, status_code |-> 400]
    ELSE [w |-> [w EXCEPT !.drivers = Del(@, driver_id)], status_code |-> 200]

remove_rider(w, rider_id) ==
    IF ~Has(w.riders, rider_id) THEN [w |-> w, status_code |-> 404]
    ELSE [w |-> [w EXCEPT !.riders = Del(@, rider_id)], status_code |-> 200]

reset_simulation(w) == SimulationState

(***************************************************************************)
(* The simulator as a state machine: one action per request handler        *)
(***************************************************************************)
\* The configuration updates the model sends to PUT /config.
ConfigUpdates == { << <<"rejection_cooldown_ticks", 1>> >> }

NextRideId == "r" \o ToString(Len(ride_requests) + 1)

Init ==
    /\ drivers = SimulationState.drivers
    /\ riders = SimulationState.riders
    /\ ride_requests = SimulationState.ride_requests
    /\ current_tick = SimulationState.current_tick
    /\ config = SimulationState.config
    /\ requests = <<>>

CreateDriver ==
    \E id \in DriverIds, p \in DriverPoints :
        SetWorld(create_driver(World, id, p[1], p[2]).w)

CreateRider ==
    \E id \in RiderIds, p \in RiderPoints :
        SetWorld(create_rider(World, id, p[1], p[2]).w)

RequestRide ==
    /\ NextRideId \in RideIds
    /\ \E rider_id \in RiderIds, p \in PickupPoints, q \in DropoffPoints :
           SetWorld(request_ride(World, NextRideId, rider_id,
                                 p[1], p[2], q[1], q[2]).w)

AdvanceTick ==
    /\ current_tick < MaxTick
    /\ \E directions \in [1..Len(drivers) -> Direction],
          coins \in [1..Len(drivers) -> BOOLEAN] :
           SetWorld(advance_tick(World, directions, coins).w)

UpdateConfig ==
    \E config_updates \in ConfigUpdates :
        SetWorld(put_config(World, config_updates).w)

RemoveDriver == \E id \in DriverIds : SetWorld(remove_driver(World, id).w)

RemoveRider == \E id \in RiderIds : SetWorld(remove_rider(World, id).w)

ResetSimulation == SetWorld(reset_simulation(World))

Next ==
    \/ CreateDriver
    \/ CreateRider
    \/ RequestRide
    \/ AdvanceTick
    \/ UpdateConfig
    \/ RemoveDriver
    \/ RemoveRider
    \/ ResetSimulation

Spec == Init /\ [][Next]_vars


(***************************************************************************)
(* Where the engine calls dispatch_ride                                    *)
(***************************************************************************)
\* The calls batch_dispatch makes, each with the world it is made in.
RECURSIVE batch_calls(_, _)
batch_calls(w, ids) ==
    IF Len(ids) = 0 THEN {}
    ELSE {[w |-> w, ride_id |-> Head(ids)]}
           \cup batch_calls(dispatch_ride(w, Head(ids)).w, Tail(ids))

\* The calls of dispatch_ride the engine can make from world w: on a ride
\* directly, in request_ride on the ride just added, in batch_dispatch, and
\* in the fallback after the assigned driver of a ride rejects it.
DispatchCalls(w) ==
    {[w |-> w, ride_id |-> id] : id \in Ids(w.ride_requests)}
    \cup {[w |-> add_ride_request(w, RideRequest(NextRideId, rider_id,
                                                 p[1], p[2], q[1], q[2])),
           ride_id |-> NextRideId] :
             rider_id \in Ids(w.riders), p \in PickupPoints, q \in DropoffPoints}
    \cup batch_calls(w, batch_order(w))
    \cup {[w |-> record_rejection(release_driver(w, r.assigned_driver_id, r.id),
                                  r.id, r.assigned_driver_id),
           ride_id |-> r.id] :
             r \in {x \in Range(w.ride_requests) : Has(w.drivers, x.assigned_driver_id)}}

(***************************************************************************)
(* Claims about dispatch and acceptance                                    *)
(***************************************************************************)

\* C1: whenever dispatch_ride(R) succeeds with driver D, the
\* auto_process_acceptance(D, R) that follows it returns true, and afterwards
\* R is ASSIGNED to D, D is ASSIGNED with current_ride_id = R, and D is not
\* in R's rejected_driver_ids.
C1_AcceptanceFollowsDispatch ==
    \A c \in DispatchCalls(World) :
        LET res == dispatch_ride(c.w, c.ride_id)
            acc == auto_process_acceptance(res.w, res.driver_id, c.ride_id)
        IN  res.success =>
              /\ acc.accepted
              /\ get_ride_request(acc.w, c.ride_id).status = ASSIGNED
              /\ get_ride_request(acc.w, c.ride_id).assigned_driver_id = res.driver_id
              /\ get_driver(acc.w, res.driver_id).status = ASSIGNED
              /\ get_driver(acc.w, res.driver_id).current_ride_id = c.ride_id
              /\ ~InSeq(res.driver_id,
                        get_ride_request(acc.w, c.ride_id).rejected_driver_ids)

\* C2: every call of dispatch_ride the engine makes (directly, in ride
\* creation, in batch_dispatch, in the fallback after a rejection) that
\* succeeds assigns a driver that is AVAILABLE when the call is made and
\* whose id is not in the ride's rejected_driver_ids.
C2_DispatchAssignsAvailableNotRejected ==
    \A c \in DispatchCalls(World) :
        LET res == dispatch_ride(c.w, c.ride_id)
        IN  res.success =>
              /\ Has(c.w.drivers, res.driver_id)
              /\ get_driver(c.w, res.driver_id).status = AVAILABLE
              /\ ~InSeq(res.driver_id,
                        get_ride_request(c.w, c.ride_id).rejected_driver_ids)
              /\ get_ride_request(res.w, c.ride_id).assigned_driver_id = res.driver_id

\* C2 witness: a ride is assigned to a driver while another driver, who has
\* rejected it, is AVAILABLE again: the fallback dispatch passed over it.
C2_Witness ==
    \E r \in Range(ride_requests), d \in Range(drivers) :
        /\ r.status = ASSIGNED
        /\ r.assigned_driver_id # d.id
        /\ d.status = AVAILABLE
        /\ InSeq(d.id, r.rejected_driver_ids)

\* C3: after every successful dispatch_ride the chosen driver's
\* search_radius is the configuration's initial_search_radius and its
\* idle_ticks is 0.
C3_DispatchResetsToInitialRadius ==
    \A c \in DispatchCalls(World) :
        LET res == dispatch_ride(c.w, c.ride_id)
        IN  res.success =>
              /\ get_driver(res.w, res.driver_id).search_radius
                   = c.w.config.initial_search_radius
              /\ get_driver(res.w, res.driver_id).idle_ticks = 0

\* C4: for every driver, current_ride_id is set iff the status is ASSIGNED
\* or ON_TRIP.
C4_CurrentRideIffBusy ==
    \A d \in Range(drivers) :
        (d.current_ride_id # None) <=> (d.status \in {ASSIGNED, ON_TRIP})

\* C4 witness: a driver has been assigned a ride, has picked the rider up
\* and has completed the ride, and is AVAILABLE with no current ride.
C4_Witness ==
    \E d \in Range(drivers) :
        /\ d.status = AVAILABLE
        /\ d.completed_rides > 0
        /\ d.current_ride_id = None

\* C5: for every ride, assigned_driver_id is set iff the status is ASSIGNED,
\* PICKUP or ON_TRIP.
C5_AssignedDriverIffActive ==
    \A r \in Range(ride_requests) :
        (r.assigned_driver_id # None) <=> (r.status \in {ASSIGNED, PICKUP, ON_TRIP})

(***************************************************************************)
(* Claims about batch dispatch                                             *)
(***************************************************************************)
\* A driver eligible for a ride: AVAILABLE, has not rejected it, and has the
\* pickup within its own search radius.
Eligible(d, r) ==
    /\ d.status = AVAILABLE
    /\ \A i \in 1..Len(r.rejected_driver_ids) : r.rejected_driver_ids[i] # d.id
    /\ Abs(d.x - r.pickup_x) + Abs(d.y - r.pickup_y) <= d.search_radius

Dispatchable(r) ==
    /\ r.status = WAITING
    /\ \A c \in r.cooldown_until_tick : current_tick >= c

\* Two dispatchable rides of different age compete for the single driver d:
\* d is the only driver eligible for either, and no ride attempted before
\* the older one can take d.
Compete(older, younger, d) ==
    /\ Dispatchable(older) /\ Dispatchable(younger)
    /\ older.created_tick < younger.created_tick
    /\ \A e \in Range(drivers) :
           (Eligible(e, older) \/ Eligible(e, younger)) <=> e.id = d.id
    /\ \A x \in Range(ride_requests) :
           (Dispatchable(x) /\ x.created_tick <= older.created_tick /\ x.id # older.id)
             => ~Eligible(d, x)

\* C6: batch_dispatch attempts exactly the rides that are WAITING and not in
\* cooldown, each once, in ascending created_tick order; when two such rides
\* of different created_tick compete for a single eligible driver, the older
\* is assigned to it and the younger remains WAITING.
C6_BatchOldestFirst ==
    LET order == batch_order(World)
        batch == batch_dispatch(World)
    IN  /\ {order[i] : i \in 1..Len(order)}
             = {r.id : r \in {x \in Range(ride_requests) : Dispatchable(x)}}
        /\ \A i, j \in 1..Len(order) :
               i < j => /\ order[i] # order[j]
                        /\ Get(ride_requests, order[i]).created_tick
                             <= Get(ride_requests, order[j]).created_tick
        /\ \A older, younger \in Range(ride_requests), d \in Range(drivers) :
               Compete(older, younger, d) =>
                 /\ get_ride_request(batch.w, older.id).status = ASSIGNED
                 /\ get_ride_request(batch.w, older.id).assigned_driver_id = d.id
                 /\ get_ride_request(batch.w, younger.id).status = WAITING
                 /\ batch.dispatched = << <<older.id, d.id>> >>

\* C6 witness: two rides created at different ticks are both dispatchable
\* and one driver is the only one eligible for either.
C6_Witness ==
    \E older, younger \in Range(ride_requests), d \in Range(drivers) :
        Compete(older, younger, d)

(***************************************************************************)
(* Ranking: dispatch_ride on worlds with two ranked drivers                *)
(***************************************************************************)
\* A driver that has completed some rides and has since idled until its
\* search radius has grown to the given radius (default configuration).
RankDriver(id, x, completed, radius) ==
    [Driver(id, x, 0) EXCEPT
        !.completed_rides = completed,
        !.search_radius = radius,
        !.idle_ticks = DefaultRadiusGrowthInterval * (radius - DefaultSearchRadius)]

RankWorld(d1, d2, weight) ==
    LET w == [SimulationState EXCEPT
                 !.drivers = <<d1, d2>>,
                 !.riders = <<Rider("u1", 0, 0)>>,
                 !.current_tick = Max(d1.idle_ticks, d2.idle_ticks)
                                    + 2 * (d1.completed_rides + d2.completed_rides),
                 !.config.fairness_penalty = Frac(weight[1], weight[2])]
    IN  add_ride_request(w, RideRequest("r1", "u1", 0, 0, 0, 1))

RankInit ==
    \E x1, x2 \in RankXs, c1, c2 \in 0..MaxCompleted, s1, s2 \in RankRadii,
       weight \in RankWeights :
        LET w == RankWorld(RankDriver("d1", x1, c1, s1),
                           RankDriver("d2", x2, c2, s2), weight)
        IN  /\ drivers = w.drivers
            /\ riders = w.riders
            /\ ride_requests = w.ride_requests
            /\ current_tick = w.current_tick
            /\ config = w.config
            /\ requests = <<>>

\* dispatch_ride called on a ride of the world.
DispatchRide ==
    \E ride_id \in Ids(ride_requests) :
        SetWorld(dispatch_ride(World, ride_id).w)

\* auto_process_acceptance called for a ride and the driver assigned to it.
AutoProcessAcceptance ==
    \E r \in Range(ride_requests) :
        /\ r.assigned_driver_id # None
        /\ SetWorld(auto_process_acceptance(World, r.assigned_driver_id, r.id).w)

RankNext ==
    \/ DispatchRide
    \/ AutoProcessAcceptance

SpecRank == RankInit /\ [][RankNext]_vars

(***************************************************************************)
(* Claims about the ranking of drivers                                     *)
(***************************************************************************)
Distance(d, r) == Abs(d.x - r.pickup_x) + Abs(d.y - r.pickup_y)

\* weight * completed_rides * 10 + distance for weight = num/den, times den.
ScoreTimesDen(d, r, weight) ==
    weight.num * d.completed_rides * 10 + weight.den * Distance(d, r)

\* Driver a is ranked no later than driver b for ride r: by score, then by
\* completed rides, then by distance.
RanksNoLater(a, b, r, weight) ==
    \/ ScoreTimesDen(a, r, weight) < ScoreTimesDen(b, r, weight)
    \/ /\ ScoreTimesDen(a, r, weight) = ScoreTimesDen(b, r, weight)
       /\ \/ a.completed_rides < b.completed_rides
          \/ /\ a.completed_rides = b.completed_rides
             /\ Distance(a, r) <= Distance(b, r)

\* C7: when dispatch_ride succeeds, the driver it assigns has the minimal
\* score fairness_weight * completed_rides * 10 + distance among the eligible
\* drivers, ties in the score going to fewer completed rides and then to the
\* smaller distance.
C7_DispatchMinimalScore ==
    \A c \in DispatchCalls(World) :
        LET res == dispatch_ride(c.w, c.ride_id)
            ride == get_ride_request(c.w, c.ride_id)
        IN  res.success =>
              /\ Eligible(get_driver(c.w, res.driver_id), ride)
              /\ \A e \in Range(c.w.drivers) :
                     Eligible(e, ride) =>
                         RanksNoLater(get_driver(c.w, res.driver_id), e, ride,
                                      c.w.config.fairness_penalty)

\* C7 witness: a ride has been dispatched to the second driver although the
\* first, still AVAILABLE, was eligible too and has fewer completed rides:
\* the second driver's score was strictly lower.
C7_Witness ==
    \E r \in Range(ride_requests) :
        /\ r.status = ASSIGNED
        /\ r.rejected_driver_ids = <<>>
        /\ Len(drivers) = 2
        /\ r.assigned_driver_id = drivers[2].id
        /\ drivers[2].status = ASSIGNED
        /\ Eligible(drivers[1], r)
        /\ drivers[1].completed_rides < drivers[2].completed_rides
        /\ ScoreTimesDen(drivers[2], r, config.fairness_penalty)
             < ScoreTimesDen(drivers[1], r, config.fairness_penalty)

\* C8: with fairness_weight = 1.0 the ranking puts every eligible driver
\* with strictly fewer completed rides ahead of every eligible driver with
\* more completed rides, whatever their distances to the pickup.
C8_FairnessIsPrimaryKey ==
    \A c \in DispatchCalls(World) :
        LET ride == get_ride_request(c.w, c.ride_id)
            weight == c.w.config.fairness_penalty
            ranked == prioritize_drivers(
                          find_eligible_drivers(ride, get_available_drivers(c.w)),
                          ride, weight)
        IN  weight.num = weight.den =>
              \A i, j \in 1..Len(ranked) :
                  ranked[i].completed_rides < ranked[j].completed_rides => i < j

\* C9: with fairness_weight = 0, a successful dispatch_ride assigns an
\* eligible driver whose Manhattan distance to the pickup is minimal among
\* the eligible drivers, whatever their completed rides.
C9_ZeroWeightAssignsNearest ==
    \A c \in DispatchCalls(World) :
        LET res == dispatch_ride(c.w, c.ride_id)
            ride == get_ride_request(c.w, c.ride_id)
        IN  (res.success /\ c.w.config.fairness_penalty.num = 0) =>
              /\ Eligible(get_driver(c.w, res.driver_id), ride)
              /\ \A e \in Range(c.w.drivers) :
                     Eligible(e, ride) =>
                         Distance(get_driver(c.w, res.driver_id), ride)
                           <= Distance(e, ride)

\* C9 witness: under fairness_weight = 0 a ride has been dispatched to a
\* driver strictly nearer to the pickup than another eligible driver that
\* has completed fewer rides.
C9_Witness ==
    \E r \in Range(ride_requests), d, e \in Range(drivers) :
        /\ config.fairness_penalty.num = 0
        /\ r.status = ASSIGNED
        /\ r.rejected_driver_ids = <<>>
        /\ r.assigned_driver_id = d.id
        /\ d.status = ASSIGNED
        /\ Eligible(e, r)
        /\ e.completed_rides < d.completed_rides
        /\ Distance(d, r) < Distance(e, r)

(***************************************************************************)
(* Idling: drivers, configuration updates and ticks, no rides              *)
(***************************************************************************)
\* The bodies the model sends to PUT /config in this specification.
IdleConfigUpdates ==
    { << <<"max_search_radius", m>>, <<"radius_growth_interval", i>> >> :
          m \in IdleMaxRadii, i \in IdleIntervals }

IdleUpdateConfig ==
    \E config_updates \in IdleConfigUpdates :
        SetWorld(put_config(World, config_updates).w)

IdleNext ==
    \/ CreateDriver
    \/ IdleUpdateConfig
    \/ AdvanceTick

SpecIdle == Init /\ [][IdleNext]_vars

\* The world after n consecutive POST /tick, every random step of every
\* driver being the given direction.
RECURSIVE Ticks(_, _, _)
Ticks(w, n, direction) ==
    IF n = 0 THEN w
    ELSE Ticks(advance_tick(w, [i \in 1..Len(w.drivers) |-> direction],
                               [i \in 1..Len(w.drivers) |-> TRUE]).w,
               n - 1, direction)

(***************************************************************************)
(* Claims about search radius growth                                       *)
(***************************************************************************)
\* The driver is AVAILABLE in the world and stays so over the next n ticks.
StaysAvailable(w, id, n, direction) ==
    \A m \in 0..n : get_driver(Ticks(w, m, direction), id).status = AVAILABLE

CreateFirstDriver ==
    /\ Len(drivers) = 0
    /\ \E id \in DriverIds, p \in DriverPoints :
           SetWorld(create_driver(World, id, p[1], p[2]).w)

GrowTick ==
    /\ current_tick < MaxGrowTick
    /\ \E directions \in [1..Len(drivers) -> Direction],
          coins \in [1..Len(drivers) -> BOOLEAN] :
           SetWorld(advance_tick(World, directions, coins).w)

GrowNext ==
    \/ CreateFirstDriver
    \/ GrowTick

SpecGrow == Init /\ [][GrowNext]_vars

(***************************************************************************)
(* Claims about the search radius of drivers                               *)
(***************************************************************************)
\* C11: in every reachable state every driver's search_radius lies in the
\* range 1..20 inclusive.
C11_SearchRadiusInRange ==
    \A d \in Range(drivers) :
        SearchRadiusGe <= d.search_radius /\ d.search_radius <= SearchRadiusLe

\* C12: a driver created through POST /drivers starts with search_radius
\* equal to the configuration's initial_search_radius at the time of
\* creation.
C12_CreatedWithInitialRadius ==
    \A id \in DriverIds, p \in DriverPoints :
        LET res == create_driver(World, id, p[1], p[2])
        IN  res.status_code = 200 =>
              get_driver(res.w, id).search_radius = config.initial_search_radius

CompletesRide(d) ==
    /\ d.status = ON_TRIP
    /\ \E i \in 1..Len(ride_requests') :
           /\ ride_requests'[i].id = d.current_ride_id
           /\ ride_requests'[i].status = COMPLETED

\* The engine functions that are not ride completion, applied wherever the
\* engine can apply them, leave completed_rides of every driver unchanged.
KeepsCompletedRides(w1, w2) ==
    /\ Ids(w2.drivers) = Ids(w1.drivers)
    /\ \A d \in Range(w1.drivers) :
           get_driver(w2, d.id).completed_rides = d.completed_rides

\* C14: a driver's completed_rides never decreases and changes only in the
\* step in which that driver completes a ride, by exactly +1; dispatch,
\* acceptance, rejection, fallback and idle movement leave it unchanged.
C14_CompletedRidesMonotone ==
    /\ [][\A d \in Range(drivers) :
            \A i \in 1..Len(drivers') :
                drivers'[i].id = d.id =>
                    \/ drivers'[i].completed_rides = d.completed_rides
                    \/ /\ drivers'[i].completed_rides = d.completed_rides + 1
                       /\ CompletesRide(d)]_vars
    /\ [](\A c \in DispatchCalls(World) :
            LET res == dispatch_ride(c.w, c.ride_id)
            IN  /\ KeepsCompletedRides(c.w, res.w)
                /\ res.success =>
                     /\ KeepsCompletedRides(res.w,
                            auto_process_acceptance(res.w, res.driver_id,
                                                    c.ride_id).w)
                     /\ \A accepted \in BOOLEAN :
                            KeepsCompletedRides(res.w,
                                process_driver_response(res.w, res.driver_id,
                                                        c.ride_id, accepted).w))
    /\ [](\A d \in Range(drivers), direction \in Direction, coin \in BOOLEAN :
            d.status = AVAILABLE =>
                KeepsCompletedRides(World,
                    process_driver_movement(World, d, direction, coin).w))

\* C14 witness: a driver that has completed a ride has been dispatched
\* again and is ASSIGNED, with its completed ride still counted.
C14_Witness ==
    \E d \in Range(drivers) :
        /\ d.completed_rides > 0
        /\ d.status = ASSIGNED

(***************************************************************************)
(* Claims about driver responses and the fallback dispatch                 *)
(***************************************************************************)
\* C15: process_driver_response returns false and changes no driver and no
\* ride when the driver id does not exist, the ride id does not exist, or
\* the ride's assigned_driver_id differs from the responding driver id.
C15_ResponseGuards ==
    \A driver_id \in DriverIds, ride_id \in RideIds, accepted \in BOOLEAN :
        LET res == process_driver_response(World, driver_id, ride_id, accepted)
            refused ==
                \/ driver_id \notin {d.id : d \in Range(drivers)}
                \/ ride_id \notin {r.id : r \in Range(ride_requests)}
                \/ \E r \in Range(ride_requests) :
                       r.id = ride_id /\ r.assigned_driver_id # driver_id
        IN  refused =>
              /\ res.ret = FALSE
              /\ res.w.drivers = drivers
              /\ res.w.ride_requests = ride_requests

\* C15 witness: a ride in progress is assigned to one driver while another
\* driver, whose response to it would be stale, is registered and free.
C15_Witness ==
    \E r \in Range(ride_requests), d \in Range(drivers) :
        /\ r.status \in {ASSIGNED, ON_TRIP}
        /\ r.assigned_driver_id # None
        /\ r.assigned_driver_id # d.id
        /\ d.current_ride_id = None

(***************************************************************************)
(* Rejection: dispatch, acceptance and fallback among three drivers        *)
(***************************************************************************)
RejectWorld(d1, d2, d3, weight) ==
    LET w == [SimulationState EXCEPT
                 !.drivers = <<d1, d2, d3>>,
                 !.riders = <<Rider("u1", 0, 0)>>,
                 !.current_tick =
                     Max(Max(d1.idle_ticks, d2.idle_ticks), d3.idle_ticks)
                       + 2 * (d1.completed_rides + d2.completed_rides
                                + d3.completed_rides),
                 !.config.fairness_penalty = Frac(weight[1], weight[2])]
    IN  add_ride_request(w, RideRequest("r1", "u1", 0, 0, 0, 1))

RejectInit ==
    \E x1, x2, x3 \in RankXs, c1, c2, c3 \in RejectCompleted,
       s1, s2, s3 \in RankRadii, weight \in RankWeights :
        LET w == RejectWorld(RankDriver("d1", x1, c1, s1),
                             RankDriver("d2", x2, c2, s2),
                             RankDriver("d3", x3, c3, s3), weight)
        IN  /\ drivers = w.drivers
            /\ riders = w.riders
            /\ ride_requests = w.ride_requests
            /\ current_tick = w.current_tick
            /\ config = w.config
            /\ requests = <<>>

SpecReject == RejectInit /\ [][RankNext]_vars

\* Driver d has been dispatched to ride r and has not responded yet.
Offered(d, r) ==
    /\ r.status = ASSIGNED
    /\ r.assigned_driver_id = d.id
    /\ d.status = ASSIGNED
    /\ d.current_ride_id = r.id

\* C16: when a driver rejects a ride and the immediate fallback dispatch
\* finds no eligible driver, the fallback returns (false, none), the ride's
\* cooldown_until_tick is current_tick + rejection_cooldown_ticks, and the
\* ride is FAILED exactly when every AVAILABLE driver is in the ride's
\* rejected_driver_ids; otherwise it is WAITING.
C16_FallbackWithoutDriver ==
    \A d \in Range(drivers), r \in Range(ride_requests) :
        ( /\ Offered(d, r)
          /\ ~\E e \in Range(drivers) : e.id # d.id /\ Eligible(e, r) )
        =>
        LET fallback == attempt_fallback_dispatch(
                            release_driver(World, d.id, r.id), r.id, d.id)
            after == process_driver_response(World, d.id, r.id, FALSE).w
            ride == get_ride_request(after, r.id)
            all_rejected ==
                \A a \in Range(after.drivers) :
                    a.status = AVAILABLE =>
                        \E i \in 1..Len(ride.rejected_driver_ids) :
                            ride.rejected_driver_ids[i] = a.id
        IN  /\ fallback.success = FALSE
            /\ fallback.driver_id = None
            /\ fallback.w = after
            /\ ride.cooldown_until_tick
                 = {current_tick + config.rejection_cooldown_ticks}
            /\ ride.assigned_driver_id = None
            /\ ride.status = IF all_rejected THEN FAILED ELSE WAITING

\* C16 witness: after a rejection with no driver to fall back to, a ride is
\* WAITING under the cooldown of the rejection, because an AVAILABLE driver
\* that has not rejected it is out of reach.
C16_Witness ==
    \E r \in Range(ride_requests), a \in Range(drivers) :
        /\ r.status = WAITING
        /\ Len(r.rejected_driver_ids) > 0
        /\ r.cooldown_until_tick
             = {current_tick + config.rejection_cooldown_ticks}
        /\ a.status = AVAILABLE
        /\ \A i \in 1..Len(r.rejected_driver_ids) : r.rejected_driver_ids[i] # a.id
        /\ Distance(a, r) > a.search_radius

\* C17: when a driver rejects a ride and some other AVAILABLE driver that
\* has not rejected it has the pickup within its search radius, the same
\* process_driver_response step reassigns the ride to the best ranked such
\* driver, never to the rejecting one; the rejecting driver is in
\* rejected_driver_ids and AVAILABLE with current_ride_id cleared, and no
\* cooldown is in effect on the ride afterwards.
C17_FallbackReassigns ==
    \A d \in Range(drivers), r \in Range(ride_requests) :
        ( /\ Offered(d, r)
          /\ \E e \in Range(drivers) : e.id # d.id /\ Eligible(e, r) )
        =>
        LET res == process_driver_response(World, d.id, r.id, FALSE)
            ride == get_ride_request(res.w, r.id)
            rejecting == get_driver(res.w, d.id)
        IN  /\ res.ret = TRUE
            /\ ride.status = ASSIGNED
            /\ ride.assigned_driver_id # d.id
            /\ \E e \in Range(drivers) :
                   /\ e.id = ride.assigned_driver_id
                   /\ e.id # d.id
                   /\ Eligible(e, r)
                   /\ \A f \in Range(drivers) :
                          (f.id # d.id /\ Eligible(f, r)) =>
                              RanksNoLater(e, f, r, config.fairness_penalty)
                   /\ get_driver(res.w, e.id).status = ASSIGNED
                   /\ get_driver(res.w, e.id).current_ride_id = r.id
            /\ \E i \in 1..Len(ride.rejected_driver_ids) :
                   ride.rejected_driver_ids[i] = d.id
            /\ rejecting.status = AVAILABLE
            /\ rejecting.current_ride_id = None
            /\ \A c \in ride.cooldown_until_tick : current_tick >= c

\* C17 witness: a ride rejected by one driver has been reassigned by the
\* fallback, in preference to a third driver that was eligible as well.
C17_Witness ==
    \E r \in Range(ride_requests), e, f \in Range(drivers) :
        /\ r.status = ASSIGNED
        /\ Len(r.rejected_driver_ids) = 1
        /\ r.cooldown_until_tick = {}
        /\ r.assigned_driver_id = e.id
        /\ e.status = ASSIGNED
        /\ f.id # e.id
        /\ Eligible(f, r)
        /\ ScoreTimesDen(e, r, config.fairness_penalty)
             < ScoreTimesDen(f, r, config.fairness_penalty)

(***************************************************************************)
(* Cooldown: two drivers, a rider, ride requests and ticks                 *)
(***************************************************************************)
\* The world after POST /drivers twice, POST /riders and PUT /config.
CooldownInit ==
    \E p1, p2 \in CooldownDriverPoints, p \in RiderPoints, k \in CooldownTicks :
        LET w1 == create_driver(SimulationState, "d1", p1[1], p1[2]).w
            w2 == create_driver(w1, "d2", p2[1], p2[2]).w
            w3 == create_rider(w2, "u1", p[1], p[2]).w
            w4 == put_config(w3, << <<"rejection_cooldown_ticks", k>> >>).w
        IN  /\ drivers = w4.drivers
            /\ riders = w4.riders
            /\ ride_requests = w4.ride_requests
            /\ current_tick = w4.current_tick
            /\ config = w4.config
            /\ requests = <<>>

CooldownNext ==
    \/ RequestRide
    \/ AdvanceTick

SpecCooldown == CooldownInit /\ [][CooldownNext]_vars

\* The worlds in which the engine can call dispatch_ride and batch_dispatch
\* from world w: w itself, and w after the tick count and the movement phase
\* of a tick, which is where advance_tick calls batch_dispatch.
CallWorlds(w) ==
    {w} \cup
    {process_all_driver_movements(increment_tick(w), directions, coins).w :
         directions \in [1..Len(w.drivers) -> Direction],
         coins \in [1..Len(w.drivers) -> BOOLEAN]}

(***************************************************************************)
(* Claims about cooldown and failed dispatch                               *)
(***************************************************************************)
\* C18: a WAITING ride whose cooldown_until_tick is c is not assigned a
\* driver by dispatch_ride or batch_dispatch while current_tick < c, and is
\* dispatched like any WAITING ride once current_tick >= c, the tick c
\* itself included.
C18_CooldownBlocksDispatch ==
    \A w \in CallWorlds(World) :
        \A r \in Range(w.ride_requests) :
            \A c \in r.cooldown_until_tick :
                r.status = WAITING =>
                    LET single == dispatch_ride(w, r.id)
                        batch == batch_dispatch(w)
                        order == batch_order(w)
                    IN  /\ w.current_tick < c =>
                              /\ single.success = FALSE
                              /\ single.w = w
                              /\ get_ride_request(batch.w, r.id) = r
                              /\ \A i \in 1..Len(batch.dispatched) :
                                     batch.dispatched[i][1] # r.id
                        /\ w.current_tick >= c =>
                              /\ single.success
                                   <=> \E e \in Range(w.drivers) : Eligible(e, r)
                              /\ \E i \in 1..Len(order) : order[i] = r.id

\* C18 witness: a ride rejected by the first driver while the second was out
\* of reach has waited out its cooldown, has been dispatched to the second
\* driver in a later tick and has been rejected by it in that tick.
C18_Witness ==
    \E r \in Range(ride_requests) :
        /\ Len(r.rejected_driver_ids) = 2
        /\ current_tick > r.created_tick
        /\ r.cooldown_until_tick
             = {current_tick + config.rejection_cooldown_ticks}

\* C19: dispatch_ride returns (false, none) and changes no field of any
\* driver or ride when the ride does not exist, is not WAITING, is in
\* cooldown, or has no eligible driver.
C19_FailedDispatchChangesNothing ==
    \A w \in CallWorlds(World), ride_id \in RideIds :
        LET res == dispatch_ride(w, ride_id)
            cannot ==
                \/ \A r \in Range(w.ride_requests) : r.id # ride_id
                \/ \E r \in Range(w.ride_requests) :
                       /\ r.id = ride_id
                       /\ \/ r.status # WAITING
                          \/ \E c \in r.cooldown_until_tick : w.current_tick < c
                          \/ ~\E e \in Range(w.drivers) : Eligible(e, r)
        IN  cannot =>
              /\ res.success = FALSE
              /\ res.driver_id = None
              /\ res.w.drivers = w.drivers
              /\ res.w.ride_requests = w.ride_requests

\* C19 witness: a WAITING ride is in cooldown while a driver that has not
\* rejected it is AVAILABLE with the pickup within its search radius.
C19_Witness ==
    \E r \in Range(ride_requests), e \in Range(drivers) :
        /\ r.status = WAITING
        /\ \E c \in r.cooldown_until_tick : current_tick < c
        /\ Eligible(e, r)

(***************************************************************************)
(* Claims about the rejection list                                         *)
(***************************************************************************)
IsPrefix(s, t) ==
    /\ Len(s) <= Len(t)
    /\ \A i \in 1..Len(s) : s[i] = t[i]

\* C20: a ride's rejected_driver_ids only grows: no step removes a driver id
\* from it, it never holds the same driver id twice, and a repeated
\* rejection by the same driver changes only cooldown_until_tick.
C20_RejectionsAppendOnly ==
    /\ [][\A r \in Range(ride_requests) :
            \A i \in 1..Len(ride_requests') :
                ride_requests'[i].id = r.id =>
                    IsPrefix(r.rejected_driver_ids,
                             ride_requests'[i].rejected_driver_ids)]_vars
    /\ [](\A r \in Range(ride_requests) :
            /\ \A i, j \in 1..Len(r.rejected_driver_ids) :
                   r.rejected_driver_ids[i] = r.rejected_driver_ids[j] => i = j
            /\ \A i \in 1..Len(r.rejected_driver_ids) :
                   add_rejection(r, r.rejected_driver_ids[i], current_tick,
                                 config.rejection_cooldown_ticks)
                     = [r EXCEPT !.cooldown_until_tick =
                            {current_tick + config.rejection_cooldown_ticks}])

\* C20 witness: a ride rejected by one driver and carried out by another is
\* COMPLETED and still lists the driver that rejected it.
C20_Witness ==
    \E r \in Range(ride_requests) :
        /\ r.status = COMPLETED
        /\ Len(r.rejected_driver_ids) = 1
        /\ r.rejected_driver_ids[1] # r.assigned_driver_id

(***************************************************************************)
(* The engine operations called directly (algorithms/__init__.py exports   *)
(* them), next to entity creation, ride creation and tick advance          *)
(***************************************************************************)
EngineTick ==
    /\ current_tick < MaxEngineTick
    /\ \E directions \in [1..Len(drivers) -> Direction],
          coins \in [1..Len(drivers) -> BOOLEAN] :
           SetWorld(advance_tick(World, directions, coins).w)

BatchDispatch == SetWorld(batch_dispatch(World).w)

ProcessDriverResponse ==
    \E driver_id \in DriverIds, ride_id \in RideIds, accepted \in BOOLEAN :
        SetWorld(process_driver_response(World, driver_id, ride_id, accepted).w)

AttemptFallbackDispatch ==
    \E ride_id \in RideIds, rejected_driver_id \in DriverIds :
        SetWorld(attempt_fallback_dispatch(World, ride_id, rejected_driver_id).w)

EngineNext ==
    \/ CreateDriver
    \/ CreateRider
    \/ RequestRide
    \/ EngineTick
    \/ DispatchRide
    \/ BatchDispatch
    \/ ProcessDriverResponse
    \/ AttemptFallbackDispatch

SpecEngine == Init /\ [][EngineNext]_vars

(***************************************************************************)
(* Claims about failed rides                                               *)
(***************************************************************************)
\* C21: FAILED is terminal: a ride that is FAILED is still FAILED, and has
\* no assigned driver, after every step of tick advance, ride creation,
\* dispatch_ride, batch_dispatch, process_driver_response and
\* attempt_fallback_dispatch.
C21_FailedIsTerminal ==
    [][\A r \in Range(ride_requests) :
          r.status = FAILED =>
              \E i \in 1..Len(ride_requests') :
                  /\ ride_requests'[i].id = r.id
                  /\ ride_requests'[i].status = FAILED
                  /\ ride_requests'[i].assigned_driver_id = None]_vars

(***************************************************************************)
(* A fleet: three drivers, a rider, ride requests and ticks                *)
(***************************************************************************)
\* The world after POST /drivers three times and POST /riders.
FleetInit ==
    \E p1, p2, p3 \in DriverPoints, p \in RiderPoints :
        LET w1 == create_driver(SimulationState, "d1", p1[1], p1[2]).w
            w2 == create_driver(w1, "d2", p2[1], p2[2]).w
            w3 == create_driver(w2, "d3", p3[1], p3[2]).w
            w4 == create_rider(w3, "u1", p[1], p[2]).w
        IN  /\ drivers = w4.drivers
            /\ riders = w4.riders
            /\ ride_requests = w4.ride_requests
            /\ current_tick = w4.current_tick
            /\ config = w4.config
            /\ requests = <<>>

FleetRequestRide ==
    /\ NextRideId \in RideIds
    /\ \E rider_id \in RiderIds, p \in PickupPoints, q \in FleetDropoffPoints :
           SetWorld(request_ride(World, NextRideId, rider_id,
                                 p[1], p[2], q[1], q[2]).w)

FleetNext ==
    \/ FleetRequestRide
    \/ AdvanceTick

SpecFleet == FleetInit /\ [][FleetNext]_vars

(***************************************************************************)
(* Claims about the movement phase                                         *)
(***************************************************************************)
IterationOrders(n) ==
    {f \in [1..n -> 1..n] : \A i, j \in 1..n : f[i] = f[j] => i = j}

\* C22: process_all_driver_movements yields the same drivers, rides and
\* riders for every order in which the drivers are iterated (the order of
\* state.drivers), each driver making the same movement choices.
C22_MovementOrderIndependent ==
    \A directions \in [1..Len(drivers) -> Direction],
       coins \in [1..Len(drivers) -> BOOLEAN],
       order \in IterationOrders(Len(drivers)) :
        LET reordered == [World EXCEPT !.drivers =
                              [i \in 1..Len(drivers) |-> drivers[order[i]]]]
            a == process_all_driver_movements(World, directions, coins).w
            b == process_all_driver_movements(
                     reordered,
                     [i \in 1..Len(drivers) |-> directions[order[i]]],
                     [i \in 1..Len(drivers) |-> coins[order[i]]]).w
        IN  /\ Range(a.drivers) = Range(b.drivers)
            /\ a.ride_requests = b.ride_requests
            /\ a.riders = b.riders

\* C23: at the end of every tick, for every ride in ON_TRIP status whose
\* rider exists, the rider's status is PICKED_UP and the rider's position is
\* the position of the ride's assigned driver.
C23_OnTripRiderFollowsDriver ==
    \A directions \in [1..Len(drivers) -> Direction],
       coins \in [1..Len(drivers) -> BOOLEAN] :
        LET after == advance_tick(World, directions, coins).w
        IN  \A r \in Range(after.ride_requests), u \in Range(after.riders),
               d \in Range(after.drivers) :
                (r.status = ON_TRIP /\ u.id = r.rider_id
                   /\ d.id = r.assigned_driver_id) =>
                    /\ u.status = PICKED_UP
                    /\ u.x = d.x
                    /\ u.y = d.y

(***************************************************************************)
(* Trips: two drivers, a rider, ride requests and ticks                    *)
(***************************************************************************)
\* The world after POST /drivers twice and POST /riders.
TripInit ==
    \E p1, p2 \in DriverPoints, p \in RiderPoints :
        LET w1 == create_driver(SimulationState, "d1", p1[1], p1[2]).w
            w2 == create_driver(w1, "d2", p2[1], p2[2]).w
            w3 == create_rider(w2, "u1", p[1], p[2]).w
        IN  /\ drivers = w3.drivers
            /\ riders = w3.riders
            /\ ride_requests = w3.ride_requests
            /\ current_tick = w3.current_tick
            /\ config = w3.config
            /\ requests = <<>>

TripRequestRide ==
    /\ NextRideId \in RideIds
    /\ \E rider_id \in RiderIds, p \in TripPickupPoints, q \in TripDropoffPoints :
           SetWorld(request_ride(World, NextRideId, rider_id,
                                 p[1], p[2], q[1], q[2]).w)

TripTick ==
    /\ current_tick < MaxTripTick
    /\ \E directions \in [1..Len(drivers) -> Direction],
          coins \in [1..Len(drivers) -> BOOLEAN] :
           SetWorld(advance_tick(World, directions, coins).w)

TripNext ==
    \/ TripRequestRide
    \/ TripTick

SpecTrip == TripInit /\ [][TripNext]_vars

\* The worlds one POST /tick can lead to from world w.  The random direction
\* is read for AVAILABLE drivers only and the coin for the others only, so
\* each is varied where it is read.
TickWorlds(w) ==
    {advance_tick(w, directions, coins).w :
        directions \in {f \in [1..Len(w.drivers) -> Direction] :
                          \A i \in 1..Len(w.drivers) :
                              w.drivers[i].status # AVAILABLE => f[i] = <<0, 1>>},
        coins \in {f \in [1..Len(w.drivers) -> BOOLEAN] :
                     \A i \in 1..Len(w.drivers) :
                         w.drivers[i].status = AVAILABLE => f[i]}}

(***************************************************************************)
(* Claims about the duration of a trip                                     *)
(***************************************************************************)
\* In each of the worlds ws, reached by n ticks, and in every world further
\* ticks lead to, the ride is ASSIGNED before to_pickup ticks have passed,
\* ON_TRIP from then until to_dropoff more ticks have passed, and COMPLETED
\* at that tick.
RECURSIVE TripRuns(_, _, _, _, _)
TripRuns(ws, ride_id, n, to_pickup, to_dropoff) ==
    /\ \A w \in ws :
           get_ride_request(w, ride_id).status =
               IF n < to_pickup THEN ASSIGNED
               ELSE IF n < to_pickup + to_dropoff THEN ON_TRIP
               ELSE COMPLETED
    /\ n < to_pickup + to_dropoff =>
           TripRuns(UNION {TickWorlds(w) : w \in ws}, ride_id, n + 1,
                    to_pickup, to_dropoff)

\* C24: under repeated tick advance, a ride ASSIGNED to a driver at
\* Manhattan distance d from the pickup is ON_TRIP after exactly max(d, 1)
\* further ticks and COMPLETED after exactly max(e, 1) ticks more, where e is
\* the distance from pickup to dropoff, whichever axis the random tie-break
\* picks.
C24_TripTakesDistanceTicks ==
    \A r \in Range(ride_requests), d \in Range(drivers) :
        Offered(d, r) =>
            TripRuns({World}, r.id, 0,
                     Max(Distance(d, r), 1),
                     Max(Abs(r.pickup_x - r.dropoff_x)
                           + Abs(r.pickup_y - r.dropoff_y), 1))

\* C24 witness: a ride with pickup and dropoff at (1, 1), assigned at tick 0
\* to a driver two units from the pickup, is COMPLETED at tick 3: two ticks
\* to the pickup and one more for a dropoff at distance 0.
C24_Witness ==
    \E r \in Range(ride_requests), d \in Range(drivers) :
        /\ r.status = COMPLETED
        /\ r.pickup_x = 1 /\ r.pickup_y = 1
        /\ r.dropoff_x = 1 /\ r.dropoff_y = 1
        /\ r.created_tick = 0
        /\ current_tick = 3
        /\ d.id = r.assigned_driver_id
        /\ d.x = 1 /\ d.y = 1
        /\ d.completed_rides = 1
        /\ d.idle_ticks = 0

(***************************************************************************)
(* Claims about the acceptance rule                                        *)
(***************************************************************************)
\* C25: should_accept_ride(driver, ride) is true exactly when the driver is
\* AVAILABLE and the Manhattan distance from the driver to the ride's pickup
\* is at most the driver's search_radius; it is false for every ASSIGNED,
\* ON_TRIP or OFFLINE driver, and two drivers and rides that agree on status,
\* position, search radius and pickup get the same answer.
C25_AcceptIffAvailableInRadius ==
    /\ \A d \in Range(drivers), r \in Range(ride_requests), s \in DriverStatus :
           should_accept_ride([d EXCEPT !.status = s], r)
             <=> /\ s = AVAILABLE
                 /\ Abs(d.x - r.pickup_x) + Abs(d.y - r.pickup_y) <= d.search_radius
    /\ \A d, e \in Range(drivers), r, q \in Range(ride_requests) :
           ( /\ d.status = e.status /\ d.x = e.x /\ d.y = e.y
             /\ d.search_radius = e.search_radius
             /\ r.pickup_x = q.pickup_x /\ r.pickup_y = q.pickup_y )
           => (should_accept_ride(d, r) <=> should_accept_ride(e, q))

\* C25 witness: a ride has been offered to a driver that stood within its
\* search radius of the pickup and, being ASSIGNED by the dispatch, was taken
\* to reject it, while another AVAILABLE driver has the pickup out of reach.
C25_Witness ==
    \E r \in Range(ride_requests), d, e \in Range(drivers) :
        /\ r.rejected_driver_ids = <<d.id>>
        /\ d.status = AVAILABLE
        /\ d.idle_ticks = 0
        /\ Distance(d, r) <= d.search_radius
        /\ e.status = AVAILABLE
        /\ Distance(e, r) > e.search_radius

(***************************************************************************)
(* Claims about configuration updates                                      *)
(***************************************************************************)
\* The dicts handed to update_config: one or two items with different keys.
UpdateDicts ==
    {<<<<k, v>>>> : k \in UpdateKeys, v \in UpdateValues}
    \cup {u \in {<<<<k1, v1>>, <<k2, v2>>>> :
                     k1 \in UpdateKeys, k2 \in UpdateKeys,
                     v1 \in UpdateValues, v2 \in UpdateValues} :
             u[1][1] # u[2][1]}

UpdatableFields ==
    {"initial_search_radius", "max_search_radius", "radius_growth_interval",
     "rejection_cooldown_ticks", "fairness_penalty"}

\* C26: a configuration update is accepted exactly when every key it names
\* is one of initial_search_radius, max_search_radius,
\* radius_growth_interval, rejection_cooldown_ticks and fairness_penalty; an
\* update naming any other key (grid_size, for one) is rejected with the
\* unknown-parameter error.
C26_ConfigUpdateFields ==
    \A config_updates \in UpdateDicts :
        update_config(World, config_updates).raised
          <=> \E i \in 1..Len(config_updates) :
                  config_updates[i][1] \notin UpdatableFields

(***************************************************************************)
(* Claims about the removal of drivers and riders                          *)
(***************************************************************************)
\* C27: DELETE /drivers/{id} succeeds only for an existing driver whose
\* status is AVAILABLE, and then removes that driver alone; for a missing or
\* non-AVAILABLE driver it reports an error and leaves the world unchanged.
\* So in every reachable state every ride in ASSIGNED or ON_TRIP status
\* names an assigned driver that is present.
C27_RemoveOnlyAvailableDriver ==
    /\ \A id \in DriverIds :
           LET res == remove_driver(World, id)
               removable == \E d \in Range(drivers) :
                                d.id = id /\ d.status = AVAILABLE
           IN  IF removable
               THEN /\ res.status_code = 200
                    /\ Range(res.w.drivers) = {d \in Range(drivers) : d.id # id}
                    /\ res.w.riders = riders
                    /\ res.w.ride_requests = ride_requests
               ELSE /\ res.status_code \in {400, 404}
                    /\ res.w = World
    /\ \A r \in Range(ride_requests) :
           r.status \in {ASSIGNED, ON_TRIP} =>
               \E d \in Range(drivers) : d.id = r.assigned_driver_id

\* C27 witness: the driver that rejected a ride has been removed, and the
\* driver carrying the ride, which could not be, is the only one left.
C27_Witness ==
    \E r \in Range(ride_requests) :
        /\ r.status \in {ASSIGNED, ON_TRIP}
        /\ Len(drivers) = 1
        /\ drivers[1].id = r.assigned_driver_id
        /\ Len(r.rejected_driver_ids) = 1
        /\ r.rejected_driver_ids[1] # drivers[1].id

\* C28: in every reachable state every ride request's rider_id refers to a
\* rider that is present; ride creation for a rider that does not exist is
\* refused and adds no ride.
C28_RideRiderPresent ==
    /\ \A r \in Range(ride_requests) :
           \E u \in Range(riders) : u.id = r.rider_id
    /\ \A rider_id \in RiderIds, p \in PickupPoints, q \in DropoffPoints :
           (\A u \in Range(riders) : u.id # rider_id) =>
               LET res == request_ride(World, NextRideId, rider_id,
                                       p[1], p[2], q[1], q[2])
               IN  /\ res.status_code = 404
                   /\ res.w = World

(***************************************************************************)
(* Overlapping requests.  The handlers of main.py are plain functions,     *)
(* which the server runs in worker threads, and neither main.py nor        *)
(* state.py takes a lock: a thread can be suspended between any two        *)
(* statements of a handler while another thread runs.  The handlers are    *)
(* taken apart here at the calls they make into the state and the engine;  *)
(* each call is one step.  Every request in the middle of being handled is *)
(* an entry of requests, holding the handler's position and its locals.    *)
(***************************************************************************)
Request(handler, pc) ==
    [handler |-> handler, pc |-> pc, ride_id |-> None, driver_id |-> None,
     dispatched |-> <<>>]

Remove(s, i) == SubSeq(s, 1, i - 1) \o SubSeq(s, i + 1, Len(s))

\* The worlds after POST /drivers and POST /riders.
ConcurrentWorlds ==
    {create_rider(create_driver(SimulationState, "d1", p1[1], p1[2]).w,
                  "u1", p[1], p[2]).w : p1 \in DriverPoints, p \in RiderPoints}

ConcurrentInit ==
    /\ \E w \in ConcurrentWorlds :
           /\ drivers = w.drivers
           /\ riders = w.riders
           /\ ride_requests = w.ride_requests
           /\ current_tick = w.current_tick
           /\ config = w.config
    /\ requests = <<>>

\* request_ride up to and including simulation_state.add_ride_request(ride).
RequestRideAdd ==
    /\ Len(requests) < MaxInFlight
    /\ NextRideId \in RideIds
    /\ \E rider_id \in RiderIds, p \in PickupPoints, q \in DropoffPoints :
           /\ Has(riders, rider_id)
           /\ SetState(add_ride_request(World,
                  RideRequest(NextRideId, rider_id, p[1], p[2], q[1], q[2])))
           /\ requests' = Append(requests,
                  [Request("request_ride", "dispatch_ride") EXCEPT
                      !.ride_id = NextRideId])

\* success, driver_id = dispatch_ride(ride_id, simulation_state)
RequestRideDispatch ==
    \E i \in 1..Len(requests) :
        /\ requests[i].handler = "request_ride"
        /\ requests[i].pc = "dispatch_ride"
        /\ LET res == dispatch_ride(World, requests[i].ride_id)
           IN  /\ SetState(res.w)
               /\ requests' =
                      IF res.success
                      THEN [requests EXCEPT
                               ![i].pc = "auto_process_acceptance",
                               ![i].driver_id = res.driver_id]
                      ELSE Remove(requests, i)

\* accepted = auto_process_acceptance(driver_id, ride_id, simulation_state)
RequestRideAccept ==
    \E i \in 1..Len(requests) :
        /\ requests[i].handler = "request_ride"
        /\ requests[i].pc = "auto_process_acceptance"
        /\ SetState(auto_process_acceptance(World, requests[i].driver_id,
                                            requests[i].ride_id).w)
        /\ requests' = Remove(requests, i)

\* simulation_state.increment_tick()
AdvanceTickIncrement ==
    /\ Len(requests) < MaxInFlight
    /\ current_tick < MaxConcurrentTick
    /\ SetState(increment_tick(World))
    /\ requests' = Append(requests,
           Request("advance_tick", "process_all_driver_movements"))

\* process_all_driver_movements(simulation_state)
AdvanceTickMove ==
    \E i \in 1..Len(requests) :
        /\ requests[i].handler = "advance_tick"
        /\ requests[i].pc = "process_all_driver_movements"
        /\ \E directions \in [1..Len(drivers) -> Direction],
              coins \in [1..Len(drivers) -> BOOLEAN] :
               LET res == process_all_driver_movements(World, directions, coins)
               IN  /\ SetState(res.w)
                   /\ requests' =
                          IF res.raised THEN Remove(requests, i)
                          ELSE [requests EXCEPT ![i].pc = "batch_dispatch"]

\* dispatched = batch_dispatch(simulation_state)
AdvanceTickDispatch ==
    \E i \in 1..Len(requests) :
        /\ requests[i].handler = "advance_tick"
        /\ requests[i].pc = "batch_dispatch"
        /\ LET batch == batch_dispatch(World)
           IN  /\ SetState(batch.w)
               /\ requests' =
                      IF Len(batch.dispatched) = 0 THEN Remove(requests, i)
                      ELSE [requests EXCEPT
                               ![i].pc = "auto_process_acceptance",
                               ![i].dispatched = batch.dispatched]

\* One iteration of: for ride_id, driver_id in dispatched.items():
\*     auto_process_acceptance(driver_id, ride_id, simulation_state)
AdvanceTickAccept ==
    \E i \in 1..Len(requests) :
        /\ requests[i].handler = "advance_tick"
        /\ requests[i].pc = "auto_process_acceptance"
        /\ SetState(auto_process_acceptance(World,
                        Head(requests[i].dispatched)[2],
                        Head(requests[i].dispatched)[1]).w)
        /\ requests' =
               IF Len(requests[i].dispatched) = 1 THEN Remove(requests, i)
               ELSE [requests EXCEPT ![i].dispatched = Tail(@)]

ConcurrentNext ==
    \/ CreateDriver
    \/ RequestRideAdd
    \/ RequestRideDispatch
    \/ RequestRideAccept
    \/ AdvanceTickIncrement
    \/ AdvanceTickMove
    \/ AdvanceTickDispatch
    \/ AdvanceTickAccept

SpecConcurrent == ConcurrentInit /\ [][ConcurrentNext]_vars

(***************************************************************************)
(* Claims about overlapping requests                                       *)
(***************************************************************************)
NextRideIdIn(w) == "r" \o ToString(Len(w.ride_requests) + 1)

\* The worlds one whole request (POST /drivers, POST /rides, POST /tick),
\* handled from start to end, can lead to from world w.
WholeRequests(w) ==
    {create_driver(w, id, p[1], p[2]).w : id \in DriverIds, p \in DriverPoints}
    \cup (IF NextRideIdIn(w) \in RideIds
          THEN {request_ride(w, NextRideIdIn(w), rider_id,
                             p[1], p[2], q[1], q[2]).w :
                   rider_id \in RiderIds, p \in PickupPoints, q \in DropoffPoints}
          ELSE {})
    \cup (IF w.current_tick < MaxConcurrentTick THEN TickWorlds(w) ELSE {})

RECURSIVE SerialClosure(_)
SerialClosure(ws) ==
    LET next == ws \cup UNION {WholeRequests(w) : w \in ws}
    IN  IF next = ws THEN ws ELSE SerialClosure(next)

\* The worlds the serial orders of whole requests produce.
SerialWorlds == SerialClosure(ConcurrentWorlds)

\* C29: when tick advance, ride creation and entity creation are invoked
\* concurrently, their effects on the world never interleave: the world
\* left behind once the requests have been handled is one that some serial
\* order of whole requests produces.
C29_RequestsSerializable ==
    requests = <<>> => World \in SerialWorlds

(***************************************************************************)
(* Claims about the response of ride creation                              *)
(***************************************************************************)
\* C30: when POST /rides reports dispatched = true with assigned_driver_id
\* = D, the new ride is ASSIGNED with assigned_driver_id = D after the call
\* and D is ASSIGNED to it; when it reports dispatched = false, the ride has
\* no assigned driver.
C30_ResponseMatchesAssignment ==
    \A rider_id \in RiderIds, p \in PickupPoints, q \in DropoffPoints :
        LET res == request_ride(World, NextRideId, rider_id,
                                p[1], p[2], q[1], q[2])
        IN  (NextRideId \in RideIds /\ res.status_code = 200) =>
              LET ride == get_ride_request(res.w, NextRideId)
              IN  IF res.dispatched
                  THEN /\ ride.status = ASSIGNED
                       /\ ride.assigned_driver_id = res.assigned_driver_id
                       /\ \E d \in Range(res.w.drivers) :
                              /\ d.id = res.assigned_driver_id
                              /\ d.status = ASSIGNED
                              /\ d.current_ride_id = ride.id
                  ELSE ride.assigned_driver_id = None

(***************************************************************************)
(* Geometry: one driver and one ride anywhere on a small grid.  The driver *)
(* and the ride are created on the 100 x 100 grid; grid_size is what       *)
(* SimulationState.update_config has set since, so that the driver may     *)
(* stand outside the grid the movement clamps to.                          *)
(***************************************************************************)
GeoWorld(a, b, size) ==
    LET w == [SimulationState EXCEPT
                 !.drivers = <<Driver("d1", a[1], a[2])>>,
                 !.riders = <<Rider("u1", b[1], b[2])>>,
                 !.config.grid_size = size]
    IN  add_ride_request(w, RideRequest("r1", "u1", b[1], b[2], 0, 0))

GeoInit ==
    \E a, b \in GeoPoints, size \in GridSizes :
        LET w == GeoWorld(a, b, size)
        IN  /\ drivers = w.drivers
            /\ riders = w.riders
            /\ ride_requests = w.ride_requests
            /\ current_tick = w.current_tick
            /\ config = w.config
            /\ requests = <<>>

GeoTick ==
    /\ current_tick < MaxGeoTick
    /\ \E directions \in [1..Len(drivers) -> Direction],
          coins \in [1..Len(drivers) -> BOOLEAN] :
           SetWorld(advance_tick(World, directions, coins).w)

GeoNext ==
    \/ DispatchRide
    \/ AutoProcessAcceptance
    \/ GeoTick

SpecGeometry == GeoInit /\ [][GeoNext]_vars

(***************************************************************************)
(* Claims about the geometry                                               *)
(***************************************************************************)
AbsDiff(m, n) == IF m >= n THEN m - n ELSE n - m

\* C31: the distance is the Manhattan metric on grid points:
\* distance(a, b) = |ax - bx| + |ay - by|, distance(a, a) = 0 and
\* distance(a, b) = distance(b, a) for all points a, b of a bounded grid.
C31_DistanceIsManhattan ==
    \A d \in Range(drivers), r \in Range(ride_requests) :
        /\ manhattan_distance(d.x, d.y, r.pickup_x, r.pickup_y)
             = AbsDiff(d.x, r.pickup_x) + AbsDiff(d.y, r.pickup_y)
        /\ manhattan_distance(d.x, d.y, d.x, d.y) = 0
        /\ manhattan_distance(r.pickup_x, r.pickup_y, r.pickup_x, r.pickup_y) = 0
        /\ manhattan_distance(d.x, d.y, r.pickup_x, r.pickup_y)
             = manhattan_distance(r.pickup_x, r.pickup_y, d.x, d.y)

\* C31 witness: the ride has been dispatched to a driver that stands off the
\* pickup on both axes, below it on one and above it on the other.
C31_Witness ==
    \E d \in Range(drivers), r \in Range(ride_requests) :
        /\ r.status = ASSIGNED
        /\ r.assigned_driver_id = d.id
        /\ d.x < r.pickup_x
        /\ d.y > r.pickup_y

\* C32: clamp_to_grid(x, y, size) returns coordinates in [0, size - 1] on
\* each axis for every integer input, leaves in-range coordinates unchanged,
\* and is idempotent: clamping its own result changes nothing.
C32_ClampToGrid ==
    \A d \in Range(drivers), dx, dy \in GeoOffsets :
        LET x == d.x + dx
            y == d.y + dy
            size == config.grid_size
            c == clamp_to_grid(x, y, size)
        IN  /\ c[1] \in 0..(size - 1)
            /\ c[2] \in 0..(size - 1)
            /\ x \in 0..(size - 1) => c[1] = x
            /\ y \in 0..(size - 1) => c[2] = y
            /\ clamp_to_grid(c[1], c[2], size) = c

\* C32 witness: on the grid of one point a driver has moved; whatever the
\* step was, it led off the grid and was clamped to (0, 0).
C32_Witness ==
    /\ config.grid_size = 1
    /\ current_tick >= 1
    /\ \E d \in Range(drivers) :
           d.status = AVAILABLE /\ d.x = 0 /\ d.y = 0 /\ d.idle_ticks >= 1

(***************************************************************************)
(* Claims about failing operations                                         *)
(***************************************************************************)
\* C33: a configuration update that contains an unknown key raises an error
\* and leaves every configuration field at its prior value, even when the
\* same update also contains valid keys listed before the unknown one.
C33_UnknownKeyChangesNothing ==
    \A config_updates \in UpdateDicts :
        LET res == update_config(World, config_updates)
        IN  (\E i \in 1..Len(config_updates) :
                 config_updates[i][1] \notin DOMAIN config)
              => /\ res.raised
                 /\ res.w.config = config

(***************************************************************************)
(* PUT /config with radius_growth_interval, next to entity creation, ride  *)
(* creation and tick advance.  ConfigUpdate declares the field as          *)
(* Optional[int] without a constraint.                                     *)
(***************************************************************************)
ZeroConfigUpdates ==
    { << <<"radius_growth_interval", i>> >> : i \in ZeroIntervals }

ZeroUpdateConfig ==
    \E config_updates \in ZeroConfigUpdates :
        SetWorld(put_config(World, config_updates).w)

ZeroNext ==
    \/ CreateDriver
    \/ CreateRider
    \/ RequestRide
    \/ ZeroUpdateConfig
    \/ AdvanceTick

SpecZero == Init /\ [][ZeroNext]_vars

\* C34: tick advance never fails: for every configuration reachable through
\* configuration update (radius_growth_interval = 0 included) and every
\* world state, advancing a tick runs to completion without raising and
\* never leaves a partially applied tick (tick counter incremented and some
\* drivers moved but dispatch not run).
C34_TickNeverFails ==
    \A directions \in [1..Len(drivers) -> Direction],
       coins \in [1..Len(drivers) -> BOOLEAN] :
        LET moved == process_all_driver_movements(increment_tick(World),
                                                  directions, coins)
            res == advance_tick(World, directions, coins)
        IN  /\ ~moved.raised
            /\ res.status_code = 200
            /\ res.w = acceptance_loop(batch_dispatch(moved.w).w,
                                       batch_dispatch(moved.w).dispatched)

(***************************************************************************)
(* Claims about the agreement of drivers and rides                         *)
(***************************************************************************)
\* C35: in every reachable state no driver is the assigned driver of two
\* rides in ASSIGNED, PICKUP or ON_TRIP status, and driver D has
\* current_ride_id = R exactly when ride R is in one of those statuses with
\* assigned_driver_id = D.
C35_DriverAndRideAgree ==
    /\ \A i, j \in 1..Len(ride_requests) :
           /\ i # j
           /\ ride_requests[i].status \in {ASSIGNED, PICKUP, ON_TRIP}
           /\ ride_requests[j].status \in {ASSIGNED, PICKUP, ON_TRIP}
           /\ ride_requests[i].assigned_driver_id # None
           => ride_requests[i].assigned_driver_id
                # ride_requests[j].assigned_driver_id
    /\ \A d \in Range(drivers), r \in Range(ride_requests) :
           d.current_ride_id = r.id
             <=> /\ r.status \in {ASSIGNED, PICKUP, ON_TRIP}
                 /\ r.assigned_driver_id = d.id
    /\ \A d \in Range(drivers) :
           d.current_ride_id # None => Has(ride_requests, d.current_ride_id)
    /\ \A r \in Range(ride_requests) :
           r.status \in {ASSIGNED, PICKUP, ON_TRIP}
             => Has(drivers, r.assigned_driver_id)

\* C35 witness: a driver that completed one ride is now serving another;
\* the completed ride still names the driver, the ride in progress is the
\* one the driver has as its current ride.
C35_Witness ==
    \E d \in Range(drivers), done, r \in Range(ride_requests) :
        /\ done.status = COMPLETED
        /\ done.assigned_driver_id = d.id
        /\ r.status = ASSIGNED
        /\ r.assigned_driver_id = d.id
        /\ d.status = ASSIGNED
        /\ d.current_ride_id = r.id

\* C36: process_driver_response changes state only for a ride that is
\* currently in ASSIGNED status: a late or duplicate response (accept or
\* reject) from driver D for a ride that D has already picked up (ON_TRIP)
\* or completed (COMPLETED) returns false and mutates nothing, so it can
\* neither put D back to ASSIGNED or AVAILABLE nor move the ride back to
\* WAITING.
C36_LateResponseChangesNothing ==
    \A driver_id \in DriverIds, ride_id \in RideIds, accepted \in BOOLEAN :
        LET res == process_driver_response(World, driver_id, ride_id, accepted)
        IN  /\ Has(ride_requests, ride_id)
            /\ get_ride_request(World, ride_id).status # ASSIGNED
            => /\ res.ret = FALSE
               /\ res.w = World

(***************************************************************************)
(* Claims about the phases of a tick                                       *)
(***************************************************************************)
\* The point a driver is heading for: the pickup of its ride while
\* ASSIGNED, the dropoff while ON_TRIP.
Target(d) ==
    LET r == Get(ride_requests, d.current_ride_id)
    IN  IF d.status = ASSIGNED THEN <<r.pickup_x, r.pickup_y>>
        ELSE <<r.dropoff_x, r.dropoff_y>>

\* C37: each tick changes any driver's position by Manhattan distance at
\* most 1 (an AVAILABLE driver stepping against the grid edge stays in
\* place, an ASSIGNED or ON_TRIP driver not yet at its target moves exactly
\* 1 closer to it), and in every reachable state every driver's position
\* lies in [0, grid_size - 1] on both axes.
C37_OneStepPerTick ==
    /\ [][current_tick' = current_tick + 1 =>
            \A i \in 1..Len(drivers) :
                LET d == drivers[i]
                    e == drivers'[i]
                    step == AbsDiff(d.x, e.x) + AbsDiff(d.y, e.y)
                IN  /\ step <= 1
                    /\ d.status = AVAILABLE /\ step = 0 =>
                           \/ d.x \in {0, config.grid_size - 1}
                           \/ d.y \in {0, config.grid_size - 1}
                    /\ d.status \in {ASSIGNED, ON_TRIP} =>
                           LET t == Target(d)
                               before == AbsDiff(d.x, t[1]) + AbsDiff(d.y, t[2])
                               after == AbsDiff(e.x, t[1]) + AbsDiff(e.y, t[2])
                           IN  IF before = 0 THEN step = 0
                               ELSE after = before - 1]_vars
    /\ [](\A d \in Range(drivers) :
              /\ d.x \in 0..(config.grid_size - 1)
              /\ d.y \in 0..(config.grid_size - 1))

\* C37 witness: after the first tick one driver, AVAILABLE, still stands in
\* the corner (0, 0) it stepped against, and the other, ASSIGNED at tick 0,
\* is one step from the pickup it started two steps from.
C37_Witness ==
    /\ current_tick = 1
    /\ \E a, b \in Range(drivers), r \in Range(ride_requests) :
           /\ a.status = AVAILABLE /\ a.x = 0 /\ a.y = 0 /\ a.idle_ticks = 1
           /\ b.status = ASSIGNED /\ b.current_ride_id = r.id
           /\ r.created_tick = 0
           /\ AbsDiff(b.x, r.pickup_x) + AbsDiff(b.y, r.pickup_y) = 1

\* C38: tick advance increases current_tick by exactly 1 and runs movement,
\* then batch dispatch, then acceptance resolution, in that order: a driver
\* that completes its ride in the movement phase can be assigned a WAITING
\* ride in the same tick, and a driver assigned in a tick's dispatch phase
\* has not moved toward the pickup by the end of that tick.
C38_TickPhasesInOrder ==
    [][current_tick' > current_tick =>
         /\ current_tick' = current_tick + 1
         \* A driver given a ride in this tick moved as what it was before:
         \* at random if AVAILABLE, onto the dropoff if ON_TRIP; it ends
         \* the tick ASSIGNED, even when it stands on the pickup.
         /\ \A i \in 1..Len(drivers) :
                LET d == drivers[i]
                    e == drivers'[i]
                IN  e.current_ride_id # None /\ e.current_ride_id # d.current_ride_id
                    => /\ e.status = ASSIGNED
                       /\ Get(ride_requests', e.current_ride_id).status = ASSIGNED
                       /\ d.status = AVAILABLE =>
                              \E direction \in Direction :
                                  <<e.x, e.y>> =
                                      clamp_to_grid(d.x + direction[1],
                                                    d.y + direction[2],
                                                    config.grid_size)
                       /\ d.status = ON_TRIP =>
                              LET r == Get(ride_requests, d.current_ride_id)
                              IN  e.x = r.dropoff_x /\ e.y = r.dropoff_y
         \* A driver that completes its ride in this tick counts for the
         \* dispatch of the same tick: the one ride that was waiting, with
         \* its pickup in the driver's reach from the dropoff, is offered
         \* to the driver or assigned.
         /\ \A i \in 1..Len(drivers), j, k \in 1..Len(ride_requests) :
                LET d == drivers[i]
                    r == ride_requests[j]
                    waiting == ride_requests[k]
                IN  /\ d.status = ON_TRIP
                    /\ d.current_ride_id = r.id
                    /\ ride_requests'[j].status = COMPLETED
                    /\ waiting.status = WAITING
                    /\ \A c \in waiting.cooldown_until_tick : current_tick + 1 >= c
                    /\ \A l \in 1..Len(ride_requests) :
                           ride_requests[l].status = WAITING => l = k
                    /\ ~InSeq(d.id, waiting.rejected_driver_ids)
                    /\ AbsDiff(r.dropoff_x, waiting.pickup_x)
                         + AbsDiff(r.dropoff_y, waiting.pickup_y) <= d.search_radius
                    => \/ ride_requests'[k].status = ASSIGNED
                       \/ InSeq(d.id, ride_requests'[k].rejected_driver_ids)
    ]_vars

\* C38 witness: at tick 2 a driver has completed a ride, which takes until
\* tick 2 at least, and is ASSIGNED to a ride that was created before that
\* tick and so was waiting when the tick began.
C38_Witness ==
    /\ current_tick = 2
    /\ \E d \in Range(drivers), done, r \in Range(ride_requests) :
           /\ done.status = COMPLETED
           /\ done.assigned_driver_id = d.id
           /\ d.completed_rides = 1
           /\ r.created_tick < 2
           /\ r.status = ASSIGNED
           /\ r.assigned_driver_id = d.id
           /\ d.current_ride_id = r.id
           /\ d.x = done.dropoff_x /\ d.y = done.dropoff_y

(***************************************************************************)
(* Claims about failed rides                                               *)
(***************************************************************************)
\* C39: a ride becomes FAILED only in the course of processing a rejection
\* of that ride: a WAITING ride that no driver has rejected is never marked
\* FAILED, and stays WAITING for as long as no eligible driver exists,
\* however many ticks pass.
C39_FailedOnlyByRejection ==
    \* A FAILED ride has been rejected.
    /\ [](\A r \in Range(ride_requests) :
              r.status = FAILED => r.rejected_driver_ids # <<>>)
    \* The step that marks a ride FAILED records a rejection of it.
    /\ [][\A k \in 1..Len(ride_requests) :
              /\ k <= Len(ride_requests')
              /\ ride_requests'[k].id = ride_requests[k].id
              /\ ride_requests[k].status # FAILED
              /\ ride_requests'[k].status = FAILED
              => Len(ride_requests'[k].rejected_driver_ids)
                   > Len(ride_requests[k].rejected_driver_ids)]_vars
    \* A tick in whose dispatch phase no driver is eligible for a WAITING
    \* ride leaves the ride as it is.
    /\ [](\A directions \in [1..Len(drivers) -> Direction],
             coins \in [1..Len(drivers) -> BOOLEAN] :
              LET moved == process_all_driver_movements(increment_tick(World),
                                                        directions, coins).w
                  res == advance_tick(World, directions, coins).w
              IN  \A r \in Range(ride_requests) :
                      /\ r.status = WAITING
                      /\ \A d \in Range(moved.drivers) : ~Eligible(d, r)
                      => get_ride_request(res, r.id) = r)

\* C39 witness: a ride that no driver has rejected is still WAITING two
\* ticks after its creation, with two AVAILABLE drivers out of reach of its
\* pickup.
C39_Witness ==
    \E r \in Range(ride_requests) :
        /\ r.status = WAITING
        /\ r.rejected_driver_ids = <<>>
        /\ current_tick >= r.created_tick + 2
        /\ Len(drivers) = 2
        /\ \A d \in Range(drivers) : d.status = AVAILABLE /\ ~Eligible(d, r)

=============================================================================
